---- MODULE Spec2Model ----
(***************************************************************************)
(* thrd-cli: the API transport (ThreadsClient.request with its rate-limit  *)
(* retry), the media publish pipeline (createPost, createCarouselPost,     *)
(* pollContainerStatus) and the OAuth authorization-code flow              *)
(* (authenticate, getAuthorizationCode).                                   *)
(*                                                                         *)
(* One CLI invocation is one thread of control: an async function runs     *)
(* until its next await, so every action below is "an awaited event        *)
(* arrives, the code runs up to the next await".  Time is read by the      *)
(* code only as Date.now() - start inside pollContainerStatus; it is       *)
(* advanced here by the two timers of the code (the poll interval and the  *)
(* rate-limit wait), a lower bound of the real elapsed time.               *)
(***************************************************************************)
EXTENDS Integers, Sequences, FiniteSets, TLC

(***************************************************************************)
(* Program constants                                                       *)
(***************************************************************************)
MAX_RATE_LIMIT_RETRIES == 2
DEFAULT_RATE_LIMIT_WAIT_MS == 60000
POLL_INTERVAL_MS == 2000
POLL_TIMEOUT_MS == 60000
MinCarouselItems == 2
MaxCarouselItems == 10

(***************************************************************************)
(* Bounds of the model                                                     *)
(***************************************************************************)
\* longest media URL list handed to createCarouselPost
MaxUrls == 11
\* requests that reach the callback listener during one flow
MaxRequests == 3
\* invocations of the CLI that are followed by another one
MaxCommands == 2

(***************************************************************************)
(* Values                                                                  *)
(***************************************************************************)
\* JavaScript undefined, for string-valued fields
Undefined == "undefined"
\* a media URL is the text before its last segment and that last segment;
\* no URL at all (undefined) is the empty sequence
NoUrl == <<>>
ImageUrl == <<"https://cdn.example/a", ".jpg">>
VideoUrl == <<"https://cdn.example/b", ".MP4">>
MovUrl == <<"https://cdn.example/c", ".mov">>
\* URLs with a query string or a fragment after the path: the segments after the
\* path's last one are the query or fragment, cut before its last ".xyz"
QueryVideoUrl == <<"https://cdn.example/d", ".mp4", "?sig=1">>
FragmentMovUrl == <<"https://cdn.example/e", ".MOV", "#t=1">>
QueryNameUrl == <<"https://cdn.example/f", ".jpg", "?name=clip", ".mp4">>
\* the segments that begin a query string or a fragment
QueryStarts == {"?sig=1", "#t=1", "?name=clip"}
Texts == {"", "hello"}
Captions == {"caption"}
UserIds == {"", "17841"}
HttpStatuses == {200, 429, 500}
ContainerStatuses == {"IN_PROGRESS", "FINISHED", "ERROR", "EXPIRED", "PUBLISHED"}

\* error messages of the code
MsgUserIdAuth == "user_id is required. Run 'thrd auth' first."
MsgUserId == "user_id is required."
MsgCarouselSize == "Carousel requires 2-10 media items."
MsgContainerError == "Container error: "
MsgContainerExpired == "Container expired before publishing."
MsgPollTimeout == "Container status polling timed out after 60s."
MsgApiError == "Threads API error "
MsgObserver == "onRateLimit observer threw"

VARIABLES
    \* ThreadsClient
    userId,        \* client.userId ("" when absent)
    accessToken,   \* client.accessToken
    onRateLimit,   \* options.onRateLimit supplied?
    \* the running operation
    op,            \* "none" or the client function that is running
    pc,            \* where the operation is suspended
    text,          \* the text argument
    media_type,    \* createPost's media_type
    image_url,     \* options.image_url
    video_url,     \* options.video_url
    mediaUrls,     \* createCarouselPost's mediaUrls
    idx,           \* position of the for-of loop over mediaUrls (1 for createPost)
    itemIds,       \* createCarouselPost's itemIds
    container,     \* id of the container being polled / published
    elapsed,       \* Date.now() - start of pollContainerStatus
    result,        \* what the operation returned or threw
    \* ThreadsClient.request in flight
    tpc,           \* "idle", "fetch", "wait", "returned", "threw"
    req,           \* method, path and body of the request
    retryCount,    \* request's retryCount parameter
    ret,           \* value returned or error thrown by request
    \* the server
    nextId,        \* next container id the server hands out
    \* history (not read by the code)
    resps,         \* HTTP statuses answered to the current request
    waits,         \* rate-limit waits completed for the current request
    notified,      \* retry numbers the observer was called with
    polls,         \* status checks issued for the current container
    inProgress,    \* have all of them that returned so far returned IN_PROGRESS?
    unfinished,    \* have all of them returned, with no FINISHED, ERROR or EXPIRED?
    finished,      \* indices (1 for createPost) whose container was seen FINISHED
    createdIds,    \* id returned by the creation request of each media item
    childrenSent,  \* children parameter of the parent CAROUSEL request
    nCreate,       \* container-creation requests issued (single or child)
    nParent,       \* parent CAROUSEL container requests issued
    nPublish,      \* publish requests issued
    fetched,       \* has the operation called fetch at all?
    \* authenticate
    apc,           \* where authenticate is suspended
    nonce,         \* authenticate's state
    promise,       \* the promise getAuthorizationCode returns
    server,        \* the callback listener
    certDir,       \* the temporary directory of the self-signed certificate
    authUrlState,  \* state parameter of the authorization URL handed to the browser
    browser,       \* was the URL opened, or printed for the user?
    shortLived,    \* answer of exchangeCodeForToken
    stored,        \* the credential store (config.json)
    authError,     \* the error authenticate threw
    \* history of the flow (not read by the code)
    lastReq,       \* the latest request that reached the listener
    lastHttp,      \* the HTTP status the listener answered it with
    nReq,          \* requests that reached the listener
    validSeen,     \* did a /callback request carry a code and the nonce as state?
    exchanges,     \* token-exchange requests issued
    sentCode,      \* the code carried by the short-lived exchange request
    answered,      \* HTTP statuses the token endpoints answered the exchanges with
    saves,         \* saveConfig calls
    \* the process environment, the commands of the CLI
    env,           \* THREADS_APP_ID, THREADS_APP_SECRET, THREADS_ACCESS_TOKEN, THREADS_USER_ID
    rpc,           \* where the refresh command is suspended
    loaded,        \* what the latest loadConfig returned
    \* history of the invocations (not read by the code)
    issued,        \* long-lived tokens the provider has issued
    latestToken,   \* the long-lived token of the latest successful exchange or refresh
    lastPartial,   \* the partial record handed to the latest saveConfig
    loads,         \* loadConfig calls
    nCmd,          \* CLI invocations that have ended
    cmd,           \* the command whose action is running ("none" outside cli.ts)
    nProfile,      \* profile requests issued by the invocation (history)
    \* saveConfig run by concurrent invocations over one config.json
    wpc,           \* where each invocation's saveConfig stands
    wexisting,     \* saveConfig's existing, per invocation
    wconfig,       \* saveConfig's config argument, per invocation
    torn,          \* config.json is truncated by a writeFileSync that has not finished
    written,       \* the invocations whose writeFileSync finished, in order (history)
    \* parseResponse on its own
    res,           \* the Response handed to parseResponse: status and body
    parsed         \* what parseResponse returned or threw

clientVars == <<userId, accessToken, onRateLimit>>
inputVars == <<op, text, media_type, image_url, video_url, mediaUrls>>
requestVars == <<tpc, req, retryCount, ret, resps, waits, notified>>
countVars == <<nCreate, nParent, nPublish>>
pollVars == <<elapsed, polls, inProgress, unfinished>>
pipeVars == <<clientVars, inputVars, pc, idx, itemIds, container, pollVars, result,
              requestVars, nextId, finished, createdIds, childrenSent, countVars,
              fetched>>
authVars == <<apc, nonce, promise, server, certDir, authUrlState, browser,
              shortLived, stored, authError, lastReq, lastHttp, nReq, validSeen,
              exchanges, sentCode, answered, saves>>
raceVars == <<wpc, wexisting, wconfig, torn, written>>
parseVars == <<res, parsed>>
cliVars == <<env, rpc, loaded, issued, latestToken, lastPartial, loads, nCmd, cmd,
             nProfile, raceVars, parseVars>>
vars == <<pipeVars, authVars, cliVars>>

(***************************************************************************)
(* Pure helpers of the client                                              *)
(***************************************************************************)
\* JavaScript truthiness of an optional string, and of an optional URL
Truthy(s) == s /= Undefined /\ s /= ""
TruthyUrl(u) == u /= NoUrl

\* String.prototype.toLowerCase on the last segments that occur
Lower(seg) ==
    CASE seg = ".MP4" -> ".mp4"
      [] seg = ".MOV" -> ".mov"
      [] seg = ".JPG" -> ".jpg"
      [] OTHER -> seg

\* /\.(mp4|mov)$/i.test(url)
IsVideo(url) == url /= NoUrl /\ Lower(url[Len(url)]) \in {".mp4", ".mov"}

\* the media type without the image_url test
MediaTypeOfNoImage(img, vid) == IF TruthyUrl(vid) THEN "VIDEO" ELSE "TEXT"

\* createPost: TEXT, IMAGE if image_url, VIDEO if video_url (the later test wins)
MediaTypeOf(img, vid) ==
    IF TruthyUrl(vid) THEN "VIDEO" ELSE IF TruthyUrl(img) THEN "IMAGE" ELSE "TEXT"

\* the size test with the upper bound excluded: ten items are rejected
CarouselSizeRejectedAtTen(n) == n < MinCarouselItems \/ n >= MaxCarouselItems

\* createCarouselPost's size test: TRUE when the list is rejected
CarouselSizeRejected(n) == n < MinCarouselItems \/ n > MaxCarouselItems

\* the retry test taking every status from 429 up: server errors are retried
ShouldRetryServerErrors(status, rc) == status >= 429 /\ rc < MAX_RATE_LIMIT_RETRIES

\* the retry test with the bound included: one retry too many
ShouldRetryOffByOne(status, rc) == status = 429 /\ rc <= MAX_RATE_LIMIT_RETRIES

\* request: is this answer retried?
ShouldRetry(status, rc) == status = 429 /\ rc < MAX_RATE_LIMIT_RETRIES

\* Array.prototype.join(","): undefined elements give the empty string
JoinIds(ids) ==
    [k \in 1..(2 * Len(ids) - 1) |->
        IF k % 2 = 1
        THEN (IF ids[(k + 1) \div 2] = Undefined THEN "" ELSE ids[(k + 1) \div 2])
        ELSE ","]

\* unshift in place of push
Unshift(ids, id) == <<id>> \o ids

\* itemIds.push(id)
Push(ids, id) == Append(ids, id)

\* PUBLISHED taken for FINISHED
PollDecisionPublished(status) ==
    CASE status \in {"FINISHED", "PUBLISHED"} -> "return"
      [] status = "ERROR" -> "error"
      [] status = "EXPIRED" -> "expired"
      [] OTHER -> "sleep"

\* FINISHED not recognised: the loop sleeps on
PollDecisionNoReturn(status) ==
    CASE status = "ERROR" -> "error"
      [] status = "EXPIRED" -> "expired"
      [] OTHER -> "sleep"

\* ERROR taken for FINISHED: a failed container passes
PollDecisionErrorFinishes(status) ==
    CASE status \in {"FINISHED", "ERROR"} -> "return"
      [] status = "EXPIRED" -> "expired"
      [] OTHER -> "sleep"

\* a response without a status field taken for FINISHED
PollDecisionMissingFinishes(status) ==
    CASE status \in {"FINISHED", Undefined} -> "return"
      [] status = "ERROR" -> "error"
      [] status = "EXPIRED" -> "expired"
      [] OTHER -> "sleep"

\* pollContainerStatus: what one status check makes the loop do
PollDecision(status) ==
    CASE status = "FINISHED" -> "return"
      [] status = "ERROR" -> "error"
      [] status = "EXPIRED" -> "expired"
      [] OTHER -> "sleep"

\* the loop stops one item early
MoreItemsButLast(i, urls) == i < Len(urls) - 1

\* createCarouselPost: does the for-of loop have an item after item i?
MoreItems(i, urls) == i < Len(urls)

\* pollContainerStatus: the loop test
PollContinues(ms) == ms < POLL_TIMEOUT_MS

(***************************************************************************)
(* ThreadsClient.request                                                   *)
(***************************************************************************)
NoBody ==
    [media_type |-> Undefined, text |-> Undefined, image_url |-> NoUrl,
     video_url |-> NoUrl, is_carousel_item |-> FALSE, children |-> <<>>,
     creation_id |-> Undefined, fields |-> Undefined, hide |-> Undefined]
NoReq == [method |-> "none", path |-> <<>>, body |-> NoBody, access_token |-> Undefined]
NoRet ==
    [ok |-> TRUE, id |-> Undefined, status |-> Undefined, success |-> Undefined,
     msg |-> "", http |-> 0, detail |-> ""]

\* the value of a parsed success body, the fields the callers read
Value(id, status) ==
    [ok |-> TRUE, id |-> id, status |-> status, success |-> Undefined, msg |-> "",
     http |-> 0, detail |-> ""]
\* new Error(`Threads API error ${res.status}: ${detail}`)
ApiError(http, detail) ==
    [ok |-> FALSE, id |-> Undefined, status |-> Undefined, success |-> Undefined,
     msg |-> MsgApiError, http |-> http, detail |-> detail]
\* an error thrown by the caller-supplied observer
ObserverError ==
    [ok |-> FALSE, id |-> Undefined, status |-> Undefined, success |-> Undefined,
     msg |-> MsgObserver, http |-> 0, detail |-> ""]

\* every status below 500 taken for a success
OkBelowServerError(http) == http >= 200 /\ http <= 499

\* res.ok
Ok(http) == http >= 200 /\ http <= 299

\* the id of the user the access token belongs to
ProfileIds == {"17841"}

\* what the server can answer to the request in flight: an HTTP status, a body
\* that parses as JSON or not, and the fields of a parsed success body
Answers ==
    {[http |-> h, parseable |-> p, id |-> i, status |-> st, success |-> su] :
        h \in HttpStatuses, p \in BOOLEAN,
        i \in {Undefined, ToString(nextId)} \cup ProfileIds,
        st \in ContainerStatuses \cup {Undefined},
        su \in {"true", "false", Undefined}}

\* the answers the server gives to request r.  Only a parsed success body has
\* fields.  A successful POST (container creation, publish) answers with a JSON
\* body carrying the new id; a successful status GET answers with a status, with
\* a body without one, or with a body that does not parse; a successful GET of
\* the profile with the user's id, without an id, or unparseable; a successful DELETE
\* or reply-visibility POST with a body that says success true or false, or does
\* not say, or does not parse.
SaysSuccess(r) ==
    r.method = "DELETE" \/ (Len(r.path) = 2 /\ r.path[2] = "manage_reply")

AnswersTo(r) ==
    {a \in Answers :
        /\ (~(Ok(a.http) /\ a.parseable))
               => (a.id = Undefined /\ a.status = Undefined /\ a.success = Undefined)
        /\ (Ok(a.http) /\ r.method = "POST" /\ ~SaysSuccess(r))
               => (a.parseable /\ a.id = ToString(nextId) /\ a.status = Undefined)
        /\ (Ok(a.http) /\ r.method = "GET" /\ r.path /= <<"me">>)
               => (a.id = Undefined)
        /\ (Ok(a.http) /\ r.method = "GET" /\ r.path = <<"me">>)
               => (a.id \in ProfileIds \cup {Undefined} /\ a.status = Undefined)
        /\ (Ok(a.http) /\ SaysSuccess(r))
               => (a.id = Undefined /\ a.status = Undefined)
        /\ (~SaysSuccess(r)) => (a.success = Undefined)}

\* parseResponse
ParseResponse(a) ==
    IF ~a.parseable
    THEN (IF ~Ok(a.http) THEN ApiError(a.http, "text.slice(0, 200)")
                         ELSE Value(Undefined, Undefined))
    ELSE (IF ~Ok(a.http) THEN ApiError(a.http, "[type] message (code)")
                         ELSE [Value(a.id, a.status) EXCEPT !.success = a.success])

\* parseResponse on the text of the body.  A body is a text that JSON.parse
\* rejects, or the JSON value it parses to: null, a string, or an object with or
\* without an error member.
SLICE_END == 200
\* a member the parsed object does not have
Missing == "<missing>"

\* text.slice(0, n)
Slice(txt, n) == SubSeq(txt, 1, IF Len(txt) < n THEN Len(txt) ELSE n)

\* a text of n characters that is not JSON; its characters differ by position
TextOf(n) == [i \in 1..n |-> i % 10]
BodyLengths == {0, 1, 199, 200, 201, 400}

\* the error member of a parsed object: not there, there but falsy (null, "", 0),
\* or an envelope whose type, message and code may each be missing
NoEnvelope == [present |-> "no", type |-> Missing, message |-> Missing, code |-> Missing]
FalsyEnvelope == [present |-> "falsy", type |-> Missing, message |-> Missing, code |-> Missing]
Envelopes ==
    {[present |-> "yes", type |-> t, message |-> m, code |-> c] :
        t \in {Missing, "OAuthException"}, m \in {Missing, "Invalid token"},
        c \in {Missing, "190"}}

JsonValues ==
    {[json |-> j, error |-> NoEnvelope, id |-> Undefined] : j \in {"null", "string"}}
    \cup {[json |-> "object", error |-> e, id |-> i] :
             e \in {NoEnvelope, FalsyEnvelope}, i \in {Undefined, "1"}}
    \cup {[json |-> "object", error |-> e, id |-> Undefined] : e \in Envelopes}
EmptyObject == [json |-> "object", error |-> NoEnvelope, id |-> Undefined]

Bodies ==
    {[parseable |-> FALSE, text |-> TextOf(n), data |-> EmptyObject] : n \in BodyLengths}
    \cup {[parseable |-> TRUE, text |-> <<>>, data |-> d] : d \in JsonValues}
ParseStatuses == {200, 201, 400, 429, 500}
Responses == {[status |-> st, body |-> b] : st \in ParseStatuses, b \in Bodies}
NoResponse == [status |-> 0, body |-> [parseable |-> FALSE, text |-> <<>>, data |-> EmptyObject]]

\* the detail of a thrown error
NoDetail ==
    [form |-> "none", text |-> <<>>, type |-> Missing, message |-> Missing, code |-> Missing,
     data |-> EmptyObject]
NoOutcome == [kind |-> "none", status |-> 0, data |-> EmptyObject, detail |-> NoDetail]
\* return data
Parsed(data) == [NoOutcome EXCEPT !.kind = "value", !.data = data]
\* throw new Error(`Threads API error ${res.status}: ${detail}`)
ParseError(status, detail) ==
    [NoOutcome EXCEPT !.kind = "error", !.status = status, !.detail = detail]
\* the TypeError of reading a member of null
ParseTypeError == [NoOutcome EXCEPT !.kind = "TypeError"]

\* a ?? b for a member that may be missing
OrElse(a, b) == IF a = Missing THEN b ELSE a

\* parseResponse
ParseResponseBody(r) ==
    IF ~r.body.parseable
    THEN (IF ~Ok(r.status)
          THEN ParseError(r.status, [NoDetail EXCEPT !.form = "slice",
                                                     !.text = Slice(r.body.text, SLICE_END)])
          ELSE Parsed(EmptyObject))
    ELSE (IF ~Ok(r.status)
          THEN (IF r.body.data.json = "null"
                THEN ParseTypeError
                ELSE IF r.body.data.json = "object" /\ r.body.data.error.present = "yes"
                THEN ParseError(r.status,
                                [NoDetail EXCEPT
                                   !.form = "envelope",
                                   !.type = OrElse(r.body.data.error.type, "Unknown"),
                                   !.message = OrElse(r.body.data.error.message,
                                                      "Unknown error"),
                                   !.code = OrElse(r.body.data.error.code, "?")])
                ELSE ParseError(r.status, [NoDetail EXCEPT !.form = "JSON.stringify",
                                                           !.data = r.body.data]))
          ELSE Parsed(r.body.data))

\* no response is being parsed on its own
ParseIdle ==
    /\ res = NoResponse
    /\ parsed = NoOutcome

\* the request leaves for the server, carrying the client's access token:
\* request(method, path, body), retryCount = 0
IssueWith(token, method, path, body) ==
    /\ tpc' = "fetch"
    /\ req' = [method |-> method, path |-> path, body |-> body,
               access_token |-> token]
    /\ retryCount' = 0
    /\ ret' = NoRet
    /\ resps' = <<>>
    /\ waits' = 0
    /\ notified' = <<>>
    /\ fetched' = TRUE

\* a request that starts from the retry count the previous request ended with
IssueCarryOver(method, path, body) ==
    /\ tpc' = "fetch"
    /\ req' = [method |-> method, path |-> path, body |-> body,
               access_token |-> accessToken]
    /\ retryCount' = retryCount
    /\ ret' = NoRet
    /\ resps' = <<>>
    /\ waits' = 0
    /\ notified' = <<>>
    /\ fetched' = TRUE

Issue(method, path, body) == IssueWith(accessToken, method, path, body)

\* the caller has taken the result of request; its locals are gone
Clear ==
    /\ tpc' = "idle"
    /\ req' = NoReq
    /\ retryCount' = 0
    /\ ret' = NoRet
    /\ resps' = <<>>
    /\ waits' = 0
    /\ notified' = <<>>
    /\ UNCHANGED fetched

\* fetch resolves with an answer that is not retried: parseResponse settles request
FetchRespond ==
    /\ tpc = "fetch"
    /\ \E a \in AnswersTo(req) :
          /\ ~ShouldRetry(a.http, retryCount)
          /\ resps' = Append(resps, a.http)
          /\ ret' = ParseResponse(a)
          /\ tpc' = IF ParseResponse(a).ok THEN "returned" ELSE "threw"
          /\ nextId' = IF req.method = "POST" /\ a.id /= Undefined
                       THEN nextId + 1 ELSE nextId
    /\ UNCHANGED <<authVars, cliVars, clientVars, inputVars, pc, idx, itemIds, container, pollVars,
                   result, req, retryCount, waits, notified, finished, createdIds,
                   childrenSent, countVars, fetched>>

\* fetch resolves with an answer that is retried (429 while retries are left):
\* handleRateLimit up to its await
HandleRateLimit ==
    /\ tpc = "fetch"
    /\ \E a \in AnswersTo(req) :
          /\ ShouldRetry(a.http, retryCount)
          /\ resps' = Append(resps, a.http)
    /\ \/ /\ onRateLimit
          /\ notified' = Append(notified, retryCount + 1)
          /\ \/ tpc' = "wait" /\ UNCHANGED ret
             \/ tpc' = "threw" /\ ret' = ObserverError
       \/ /\ ~onRateLimit
          /\ tpc' = "wait"
          /\ UNCHANGED <<notified, ret>>
    /\ UNCHANGED <<authVars, cliVars, clientVars, inputVars, pc, idx, itemIds, container, pollVars,
                   result, req, retryCount, waits, nextId, finished, createdIds,
                   childrenSent, countVars, fetched>>

\* the rate-limit timer fires: request(method, path, body, retryCount + 1)
RateLimitRetry ==
    /\ tpc = "wait"
    /\ tpc' = "fetch"
    /\ retryCount' = retryCount + 1
    /\ waits' = waits + 1
    /\ elapsed' = IF pc = "status" THEN elapsed + DEFAULT_RATE_LIMIT_WAIT_MS ELSE elapsed
    /\ UNCHANGED <<authVars, cliVars, clientVars, inputVars, pc, idx, itemIds, container, polls,
                   inProgress, unfinished, result, req, ret, resps, notified, nextId, finished,
                   createdIds, childrenSent, countVars, fetched>>

(***************************************************************************)
(* posts.ts: createContainer, pollContainerStatus, publishContainer        *)
(***************************************************************************)
NoResult == [kind |-> "none", msg |-> "", id |-> Undefined, http |-> 0, detail |-> ""]
Returned(id) == [kind |-> "ok", msg |-> "", id |-> id, http |-> 0, detail |-> ""]
Thrown(msg, http, detail) ==
    [kind |-> "error", msg |-> msg, id |-> Undefined, http |-> http, detail |-> detail]

\* the operation throws msg before or between requests
Throw(msg) ==
    /\ pc' = "done"
    /\ result' = Thrown(msg, 0, "")
    /\ Clear

\* the error thrown by request propagates out of the operation
Rethrow ==
    /\ pc' = "done"
    /\ result' = Thrown(ret.msg, ret.http, ret.detail)
    /\ Clear

\* the body createContainer builds from its options
CreateBody(mt, txt, img, vid, item) ==
    [NoBody EXCEPT !.media_type = mt,
                   !.text = IF Truthy(txt) THEN txt ELSE Undefined,
                   !.image_url = img,
                   !.video_url = vid,
                   !.is_carousel_item = item]

\* createContainer without its test of the user id
CreateContainerUnguarded(mt, txt, img, vid, item) ==
    /\ Issue("POST", <<userId, "threads">>, CreateBody(mt, txt, img, vid, item))
    /\ pc' = "create"
    /\ nCreate' = nCreate + 1
    /\ UNCHANGED result

\* createContainer up to its await
CreateContainer(mt, txt, img, vid, item) ==
    IF ~Truthy(userId)
    THEN Throw(MsgUserIdAuth) /\ UNCHANGED nCreate
    ELSE /\ Issue("POST", <<userId, "threads">>, CreateBody(mt, txt, img, vid, item))
         /\ pc' = "create"
         /\ nCreate' = nCreate + 1
         /\ UNCHANGED result

\* publishContainer up to its await
PublishContainer(id) ==
    IF ~Truthy(userId)
    THEN Throw(MsgUserId) /\ UNCHANGED nPublish
    ELSE /\ Issue("POST", <<userId, "threads_publish">>,
                  [NoBody EXCEPT !.creation_id = id])
         /\ pc' = "publish"
         /\ nPublish' = nPublish + 1
         /\ UNCHANGED result

\* getContainerStatus up to its await
GetContainerStatus(id) ==
    Issue("GET", <<id>>, [NoBody EXCEPT !.fields = "id,status,error_message"])

\* pollContainerStatus from its loop test, ms after start, up to the next await
PollLoop(id, ms, n) ==
    IF PollContinues(ms)
    THEN /\ GetContainerStatus(id)
         /\ pc' = "status"
         /\ polls' = n + 1
         /\ UNCHANGED result
    ELSE Throw(MsgPollTimeout) /\ UNCHANGED polls

\* pollContainerStatus is entered: start = Date.now()
StartPoll(id) ==
    /\ elapsed' = 0
    /\ inProgress' = TRUE
    /\ unfinished' = TRUE
    /\ PollLoop(id, 0, 0)

(***************************************************************************)
(* createPost, createCarouselPost                                          *)
(***************************************************************************)
PipeInit ==
    /\ op = "none"
    /\ pc = "idle"
    /\ text = ""
    /\ media_type = "TEXT"
    /\ image_url = NoUrl
    /\ video_url = NoUrl
    /\ mediaUrls = <<>>
    /\ idx = 1
    /\ itemIds = <<>>
    /\ container = Undefined
    /\ elapsed = 0
    /\ polls = 0
    /\ inProgress = TRUE
    /\ unfinished = TRUE
    /\ result = NoResult
    /\ tpc = "idle"
    /\ req = NoReq
    /\ retryCount = 0
    /\ ret = NoRet
    /\ resps = <<>>
    /\ waits = 0
    /\ notified = <<>>
    /\ nextId = 1
    /\ finished = {}
    /\ createdIds = <<>>
    /\ childrenSent = <<>>
    /\ nCreate = 0
    /\ nParent = 0
    /\ nPublish = 0
    /\ fetched = FALSE

\* the container ids publishContainer is called with on its own
ContainerIds == {"1"}
\* the fields parameter of the post reads
PostFields == "id,media_type,text,timestamp,permalink,username,is_quote_post"

\* the media URL lists tried: one of every length up to MaxUrls, cycling through
\* the three URLs from a starting point that changes with the length
UrlCycle == <<ImageUrl, VideoUrl, MovUrl>>
MediaUrlLists ==
    {[i \in 1..n |-> UrlCycle[((i + n) % 3) + 1]] : n \in 0..MaxUrls}

\* lists whose URLs carry a query string or a fragment
QueryUrlLists ==
    {<<QueryVideoUrl, FragmentMovUrl>>, <<VideoUrl, QueryNameUrl>>}

\* the arguments createPost is called with: text, image_url, video_url
PostArgs == Texts \X {NoUrl, ImageUrl} \X {NoUrl, VideoUrl}

\* createPost(client, text, {image_url, video_url}) up to its first await, for
\* one of the argument triples args
CreatePostOf(args) ==
    /\ \E a \in args :
          /\ op' = "createPost"
          /\ text' = a[1]
          /\ image_url' = a[2]
          /\ video_url' = a[3]
          /\ media_type' = MediaTypeOf(a[2], a[3])
          /\ CreateContainer(MediaTypeOf(a[2], a[3]), a[1], a[2], a[3], FALSE)
    /\ UNCHANGED <<authVars, cliVars, clientVars, mediaUrls, idx, itemIds, container, pollVars, nextId,
                   finished, createdIds, childrenSent, nParent, nPublish>>

CallCreatePost ==
    /\ pc = "idle"
    /\ CreatePostOf(PostArgs)

\* the child container of media item i
CreateChild(url) ==
    IF IsVideo(url)
    THEN CreateContainer("VIDEO", Undefined, NoUrl, url, TRUE)
    ELSE CreateContainer("IMAGE", Undefined, url, NoUrl, TRUE)

\* createCarouselPost(client, text, mediaUrls) up to its first await, for one of
\* the lists
CreateCarouselPostOf(lists) ==
    /\ \E t \in Captions, urls \in lists :
          /\ op' = "createCarouselPost"
          /\ text' = t
          /\ mediaUrls' = urls
          /\ IF ~Truthy(userId)
             THEN Throw(MsgUserId) /\ UNCHANGED nCreate
             ELSE IF CarouselSizeRejected(Len(urls))
             THEN Throw(MsgCarouselSize) /\ UNCHANGED nCreate
             ELSE CreateChild(urls[1])
    /\ UNCHANGED <<authVars, cliVars, clientVars, media_type, image_url, video_url, idx, itemIds,
                   container, pollVars, nextId, finished, createdIds, childrenSent,
                   nParent, nPublish>>

CallCreateCarouselPost ==
    /\ pc = "idle"
    /\ CreateCarouselPostOf(MediaUrlLists \cup QueryUrlLists)

\* publishContainer(client, containerId) called on its own, up to its await
CallPublishContainer ==
    /\ pc = "idle"
    /\ op' = "publishContainer"
    /\ \E id \in ContainerIds : PublishContainer(id)
    /\ UNCHANGED <<authVars, cliVars, clientVars, text, media_type, image_url, video_url,
                   mediaUrls, idx, itemIds, container, pollVars, nextId, finished,
                   createdIds, childrenSent, nCreate, nParent>>

\* getUserThreads(client) up to its await
GetUserThreads ==
    /\ op' = "getUserThreads"
    /\ IF ~Truthy(userId)
       THEN Throw(MsgUserId)
       ELSE /\ Issue("GET", <<userId, "threads">>, [NoBody EXCEPT !.fields = PostFields])
            /\ pc' = "read"
            /\ UNCHANGED result
    /\ UNCHANGED <<authVars, cliVars, clientVars, text, media_type, image_url, video_url,
                   mediaUrls, idx, itemIds, container, pollVars, nextId, finished,
                   createdIds, childrenSent, countVars>>

CallGetUserThreads ==
    /\ pc = "idle"
    /\ GetUserThreads

\* getUserInsights(client) up to its await
CallGetUserInsights ==
    /\ pc = "idle"
    /\ op' = "getUserInsights"
    /\ IF ~Truthy(userId)
       THEN Throw(MsgUserId)
       ELSE /\ Issue("GET", <<userId, "threads_insights">>, NoBody)
            /\ pc' = "read"
            /\ UNCHANGED result
    /\ UNCHANGED <<authVars, cliVars, clientVars, text, media_type, image_url, video_url,
                   mediaUrls, idx, itemIds, container, pollVars, nextId, finished,
                   createdIds, childrenSent, countVars>>

\* the request of a read operation (getUserThreads, getUserInsights, getReplies,
\* getMediaInsights) settles: the operation returns what request returned
ReadResume ==
    /\ pc = "read"
    /\ tpc \in {"returned", "threw"}
    /\ IF tpc = "threw"
       THEN Rethrow
       ELSE pc' = "done" /\ result' = Returned(ret.id) /\ Clear
    /\ UNCHANGED <<authVars, cliVars, clientVars, inputVars, idx, itemIds, container, pollVars,
                   nextId, finished, createdIds, childrenSent, countVars>>

\* the creation request settles: createPost or the carousel loop goes on
CreateContainerResume ==
    /\ pc = "create"
    /\ tpc \in {"returned", "threw"}
    /\ IF tpc = "threw"
       THEN /\ Rethrow
            /\ UNCHANGED <<container, createdIds, pollVars, nPublish>>
       ELSE /\ container' = ret.id
            /\ createdIds' = Append(createdIds, ret.id)
            /\ IF op = "createPost" /\ media_type = "TEXT"
               THEN PublishContainer(ret.id) /\ UNCHANGED pollVars
               ELSE StartPoll(ret.id) /\ UNCHANGED nPublish
    /\ UNCHANGED <<authVars, cliVars, clientVars, inputVars, idx, itemIds, nextId, finished,
                   childrenSent, nCreate, nParent>>

\* the status request settles inside pollContainerStatus
PollResume ==
    /\ pc = "status"
    /\ tpc \in {"returned", "threw"}
    /\ finished' = IF tpc = "returned" /\ ret.status = "FINISHED"
                   THEN finished \cup {idx} ELSE finished
    /\ inProgress' = (inProgress /\ tpc = "returned" /\ ret.status = "IN_PROGRESS")
    /\ unfinished' = (unfinished /\ tpc = "returned"
                          /\ ret.status \notin {"FINISHED", "ERROR", "EXPIRED"})
    /\ IF tpc = "threw"
       THEN /\ Rethrow
            /\ UNCHANGED <<idx, itemIds, childrenSent, countVars>>
       ELSE CASE PollDecision(ret.status) = "error" ->
                   /\ Throw(MsgContainerError)
                   /\ UNCHANGED <<idx, itemIds, childrenSent, countVars>>
              [] PollDecision(ret.status) = "expired" ->
                   /\ Throw(MsgContainerExpired)
                   /\ UNCHANGED <<idx, itemIds, childrenSent, countVars>>
              [] PollDecision(ret.status) = "sleep" ->
                   /\ pc' = "sleep"
                   /\ Clear
                   /\ UNCHANGED <<result, idx, itemIds, childrenSent, countVars>>
              [] PollDecision(ret.status) = "return" ->
                   IF op = "createPost"
                   THEN /\ PublishContainer(container)
                        /\ UNCHANGED <<idx, itemIds, childrenSent, nCreate, nParent>>
                   ELSE /\ itemIds' = Push(itemIds, container)
                        /\ IF MoreItems(idx, mediaUrls)
                           THEN /\ idx' = idx + 1
                                /\ CreateChild(mediaUrls[idx + 1])
                                /\ UNCHANGED <<childrenSent, nParent, nPublish>>
                           ELSE /\ Issue("POST", <<userId, "threads">>,
                                         [NoBody EXCEPT
                                            !.media_type = "CAROUSEL",
                                            !.children = JoinIds(Push(itemIds, container)),
                                            !.text = text])
                                /\ pc' = "parent"
                                /\ childrenSent' = JoinIds(Push(itemIds, container))
                                /\ nParent' = nParent + 1
                                /\ UNCHANGED <<result, idx, nCreate, nPublish>>
    /\ UNCHANGED <<authVars, cliVars, clientVars, inputVars, container, elapsed, polls, nextId,
                   createdIds>>

\* the poll interval timer fires: back to the loop test
PollWake ==
    /\ pc = "sleep"
    /\ elapsed' = elapsed + POLL_INTERVAL_MS
    /\ PollLoop(container, elapsed + POLL_INTERVAL_MS, polls)
    /\ UNCHANGED <<authVars, cliVars, clientVars, inputVars, idx, itemIds, container, inProgress,
                   unfinished,
                   nextId, finished, createdIds, childrenSent, countVars>>

\* the parent CAROUSEL container request settles
CarouselParentResume ==
    /\ pc = "parent"
    /\ tpc \in {"returned", "threw"}
    /\ IF tpc = "threw"
       THEN Rethrow /\ UNCHANGED <<container, nPublish>>
       ELSE container' = ret.id /\ PublishContainer(ret.id)
    /\ UNCHANGED <<authVars, cliVars, clientVars, inputVars, idx, itemIds, pollVars, nextId, finished,
                   createdIds, childrenSent, nCreate, nParent>>

\* the publish request settles: the operation returns the post id
PublishResume ==
    /\ pc = "publish"
    /\ tpc \in {"returned", "threw"}
    /\ IF tpc = "threw"
       THEN Rethrow
       ELSE pc' = "done" /\ result' = Returned(ret.id) /\ Clear
    /\ UNCHANGED <<authVars, cliVars, clientVars, inputVars, idx, itemIds, container, pollVars, nextId,
                   finished, createdIds, childrenSent, countVars>>

(***************************************************************************)
(* auth.ts: authenticate, getAuthorizationCode, the token exchanges, and   *)
(* saveConfig                                                              *)
(***************************************************************************)
\* URLSearchParams.get of a parameter the query does not carry
Null == "<null>"
AppId == "app-id"
AppSecret == "app-secret"
\* randomBytes(16).toString("hex"), two of its values
Nonces == {"9f3a", "51bc"}
\* state values a request can carry: the nonces, a nonce in upper case, a prefix
\* of a nonce, the empty string, none
StateParams == Nonces \cup {"9F3A", "9f3", "", Null}
CodeParams == {"c1", "c2", "", Null}
ErrorParams == {"access_denied", "", Null}
Paths == {"/callback", "/callback/", "/favicon.ico"}

\* the requests that can reach the listener; a request to another path is taken
\* without its query, which the handler does not read
Requests ==
    {[path |-> "/callback", code |-> c, state |-> st, error |-> e] :
        c \in CodeParams, st \in StateParams, e \in ErrorParams}
    \cup {[path |-> pth, code |-> Null, state |-> Null, error |-> Null] :
            pth \in Paths \ {"/callback"}}
NoRequest == [path |-> "", code |-> Null, state |-> Null, error |-> Null]

\* truthiness of a query parameter: null and "" are falsy
Given(v) == v /= Null /\ v /= ""

\* the path test by prefix: /callback/ is taken for the callback route
IsCallbackPathPrefix(pathname) == pathname \in {"/callback", "/callback/"}

\* the request handler's path test
IsCallbackPath(pathname) == pathname = "/callback"

\* the state test dropped for a callback without a state parameter
CallbackOutcomeStateOptional(code, returnedState, error, st) ==
    IF Given(error) THEN "denied"
    ELSE IF ~Given(code) \/ (returnedState /= Null /\ returnedState /= st)
    THEN "invalid"
    ELSE "ok"

\* the code and state tests made before the error test
CallbackOutcomeErrorLast(code, returnedState, error, st) ==
    IF ~Given(code) \/ returnedState /= st THEN "invalid"
    ELSE IF Given(error) THEN "denied"
    ELSE "ok"

\* the request handler's tests on a /callback request
CallbackOutcome(code, returnedState, error, st) ==
    IF Given(error) THEN "denied"
    ELSE IF ~Given(code) \/ returnedState /= st THEN "invalid"
    ELSE "ok"

MsgOAuthError == "OAuth error: "
MsgInvalidCallback == "Invalid OAuth callback."
MsgCert == "Failed to generate a self-signed certificate. Is OpenSSL installed?"
MsgListen == "listen EADDRINUSE"
MsgTokenExchange == "Token exchange failed"
MsgLongLived == "Long-lived token exchange failed"

NoError == [msg |-> "", detail |-> ""]
Pending == [st |-> "pending", code |-> Null, err |-> NoError]
Resolved(code) == [st |-> "resolved", code |-> code, err |-> NoError]
Rejected(err) == [st |-> "rejected", code |-> Null, err |-> err]

\* a field a partial config does not name
Absent == "<absent>"
ConfigFields == {"app_id", "app_secret", "access_token", "user_id", "expires_at"}
EmptyConfig == [f \in ConfigFields |-> Undefined]
OldConfig ==
    [app_id |-> "old-app", app_secret |-> "old-secret", access_token |-> "LL0",
     user_id |-> "4242", expires_at |-> "500"]

\* the merge with the spread operands exchanged: the previous values win
SaveConfigExistingWins(existing, config) ==
    [f \in ConfigFields |-> IF existing[f] = Undefined THEN
                               (IF config[f] = Absent THEN Undefined ELSE config[f])
                            ELSE existing[f]]

\* saveConfig: { ...existing, ...config } written with JSON.stringify, which drops
\* the keys whose value is undefined
SaveConfig(existing, config) ==
    [f \in ConfigFields |-> IF config[f] = Absent THEN existing[f] ELSE config[f]]

\* the partial record that names no field
NoPartial == [f \in ConfigFields |-> Absent]

\* the variables of the environment loadConfig reads, by the field they give
EnvFields == {"app_id", "app_secret", "access_token", "user_id"}
NoEnv == [f \in EnvFields |-> Undefined]
\* the environments tried: nothing set, the token set, everything set, the user
\* id set to the empty string
Envs ==
    {NoEnv,
     [NoEnv EXCEPT !.access_token = "ENV-TOKEN"],
     [app_id |-> "env-app", app_secret |-> "env-secret",
      access_token |-> "ENV-TOKEN", user_id |-> "777"],
     [NoEnv EXCEPT !.user_id = ""]}

\* a ?? b
Coalesce(a, b) == IF a = Undefined THEN b ELSE a

MsgMissing == "Missing credentials: "

\* loadConfig: the environment before the file, expires_at from the file alone;
\* it throws when app_id, app_secret or access_token is missing or empty.  A file
\* that is absent or does not parse reads as EmptyConfig.
LoadConfig(file, e) ==
    LET c == [app_id |-> Coalesce(e.app_id, file.app_id),
              app_secret |-> Coalesce(e.app_secret, file.app_secret),
              access_token |-> Coalesce(e.access_token, file.access_token),
              user_id |-> Coalesce(e.user_id, file.user_id),
              expires_at |-> file.expires_at]
    IN IF ~Truthy(c.app_id) \/ ~Truthy(c.app_secret) \/ ~Truthy(c.access_token)
       THEN [threw |-> TRUE, config |-> EmptyConfig]
       ELSE [threw |-> FALSE, config |-> c]

NoLoaded == [threw |-> FALSE, config |-> EmptyConfig]

\* the access token of the next successful exchange or refresh answer
NewToken == "LL" \o ToString(issued + 1)

\* new Date(ms).toISOString(), as the text of the instant
ToISOString(ms) == ToString(ms)

\* expires_in ? new Date(Date.now() + expires_in * 1000).toISOString() : undefined
ExpiresAt(now, expires_in) ==
    IF expires_in /= 0 THEN ToISOString(now + expires_in * 1000) ELSE Undefined

\* no command is running in this invocation
NoCommand == apc = "idle" /\ rpc = "idle" /\ pc = "idle"

NoToken == [access_token |-> Undefined, user_id |-> 0]
\* wall-clock time of the long-lived answer, in ms
WallClocks == {1000}

AuthIdle ==
    /\ apc = "idle"
    /\ nonce = ""
    /\ promise = Pending
    /\ server = "none"
    /\ certDir = "none"
    /\ authUrlState = Null
    /\ browser = "none"
    /\ shortLived = NoToken
    /\ authError = NoError
    /\ lastReq = NoRequest
    /\ lastHttp = 0
    /\ nReq = 0
    /\ validSeen = FALSE
    /\ exchanges = 0
    /\ sentCode = Null
    /\ answered = <<>>
    /\ saves = 0

\* authenticate throws err
AuthFail(err) ==
    /\ apc' = "failed"
    /\ authError' = err

\* resolve / reject that overwrite a settled promise: the last request wins
SettleLastWins(outcome) ==
    /\ promise' = outcome
    /\ IF outcome.st = "resolved"
       THEN /\ apc' = "exchangeCode"
            /\ exchanges' = exchanges + 1
            /\ sentCode' = outcome.code
            /\ UNCHANGED authError
       ELSE /\ apc' = "failed"
            /\ authError' = outcome.err
            /\ UNCHANGED <<exchanges, sentCode>>

\* the promise is settled by resolve(code) / reject(err): only a pending promise
\* changes, and the awaiting authenticate goes on to exchangeCodeForToken's fetch
\* or throws
Settle(outcome) ==
    IF promise.st /= "pending"
    THEN UNCHANGED <<promise, apc, authError, exchanges, sentCode>>
    ELSE /\ promise' = outcome
         /\ IF outcome.st = "resolved"
            THEN /\ apc' = "exchangeCode"
                 /\ exchanges' = exchanges + 1
                 /\ sentCode' = outcome.code
                 /\ UNCHANGED authError
            ELSE /\ AuthFail(outcome.err)
                 /\ UNCHANGED <<exchanges, sentCode>>

\* authenticate(appId, appSecret, port) up to its first await: the nonce is drawn,
\* the certificate generated and the listener created
Authenticate ==
    /\ NoCommand
    /\ \E n \in Nonces :
          /\ nonce' = n
          /\ \/ /\ certDir' = "present"
                /\ server' = "binding"
                /\ apc' = "awaitCode"
                /\ UNCHANGED <<promise, authError>>
             \/ /\ certDir' = "removed"
                /\ promise' = Rejected([msg |-> MsgCert, detail |-> ""])
                /\ AuthFail([msg |-> MsgCert, detail |-> ""])
                /\ UNCHANGED server
    /\ UNCHANGED <<answered, authUrlState, browser, shortLived, stored, lastReq, lastHttp, nReq,
                   validSeen, exchanges, sentCode, saves, pipeVars, cliVars>>

\* the listening callback: the authorization URL is built and opened, or printed
ListenOk ==
    /\ server = "binding"
    /\ server' = "listening"
    /\ authUrlState' = nonce
    /\ browser' \in {"opened", "printed"}
    /\ UNCHANGED <<answered, apc, nonce, promise, certDir, shortLived, stored, authError,
                   lastReq, lastHttp, nReq, validSeen, exchanges, sentCode, saves,
                   pipeVars, cliVars>>

\* the listener's error event (the port is taken)
ListenError ==
    /\ server = "binding"
    /\ server' = "failed"
    /\ certDir' = "removed"
    /\ Settle(Rejected([msg |-> MsgListen, detail |-> ""]))
    /\ UNCHANGED <<answered, nonce, authUrlState, browser, shortLived, stored, lastReq,
                   lastHttp, nReq, validSeen, saves, pipeVars, cliVars>>

\* a request, one of rs, reaches the handler: the listener is listening, or
\* server.close() has been called and a connection made before it is still open
HandleRequestFrom(rs) ==
    /\ server \in {"listening", "closing"}
    /\ nReq < MaxRequests
    /\ \E r \in rs :
          /\ lastReq' = r
          /\ nReq' = nReq + 1
          /\ IF ~IsCallbackPath(r.path)
             THEN /\ lastHttp' = 404
                  /\ UNCHANGED <<server, promise, apc, authError, exchanges, sentCode,
                                 validSeen>>
             ELSE /\ validSeen' = (validSeen \/ (Given(r.code) /\ r.state = authUrlState))
                  /\ server' = "closing"
                  /\ LET out == CallbackOutcome(r.code, r.state, r.error, nonce) IN
                       CASE out = "denied" ->
                              /\ lastHttp' = 400
                              /\ Settle(Rejected([msg |-> MsgOAuthError,
                                                  detail |-> r.error]))
                         [] out = "invalid" ->
                              /\ lastHttp' = 400
                              /\ Settle(Rejected([msg |-> MsgInvalidCallback,
                                                  detail |-> ""]))
                         [] out = "ok" ->
                              /\ lastHttp' = 200
                              /\ Settle(Resolved(r.code))
    /\ UNCHANGED <<answered, nonce, certDir, authUrlState, browser, shortLived, stored, saves,
                   pipeVars, cliVars>>

HandleRequest == HandleRequestFrom(Requests)

\* the listener's close event: the last connection has ended
ServerClosed ==
    /\ server = "closing"
    /\ server' = "closed"
    /\ certDir' = "removed"
    /\ UNCHANGED <<answered, apc, nonce, promise, authUrlState, browser, shortLived, stored,
                   authError, lastReq, lastHttp, nReq, validSeen, exchanges, sentCode,
                   saves, pipeVars, cliVars>>

\* the token endpoint answers exchangeCodeForToken; on success
\* exchangeForLongLivedToken's fetch leaves
TokenAnswer ==
    /\ apc = "exchangeCode"
    /\ \E http \in {200, 400}, uid \in {0, 17841} :
          /\ answered' = Append(answered, http)
          /\ IF ~Ok(http)
             THEN /\ AuthFail([msg |-> MsgTokenExchange, detail |-> ToString(http)])
                  /\ UNCHANGED <<shortLived, exchanges>>
             ELSE /\ shortLived' = [access_token |-> "SL1", user_id |-> uid]
                  /\ apc' = "exchangeToken"
                  /\ exchanges' = exchanges + 1
                  /\ UNCHANGED authError
    /\ UNCHANGED <<nonce, promise, server, certDir, authUrlState, browser, stored,
                   lastReq, lastHttp, nReq, validSeen, sentCode, saves, pipeVars, cliVars>>

\* the exchange endpoint answers exchangeForLongLivedToken; on success the expiry
\* is computed and the credentials are saved
LongLivedAnswer ==
    /\ apc = "exchangeToken"
    /\ \E http \in {200, 400}, expires_in \in {0, 60}, now \in WallClocks :
          /\ answered' = Append(answered, http)
          /\ IF ~Ok(http)
             THEN /\ AuthFail([msg |-> MsgLongLived, detail |-> ToString(http)])
                  /\ UNCHANGED <<stored, saves, issued, latestToken, lastPartial>>
             ELSE LET config ==
                        [app_id |-> AppId,
                         app_secret |-> AppSecret,
                         access_token |-> NewToken,
                         user_id |-> IF shortLived.user_id /= 0
                                     THEN ToString(shortLived.user_id) ELSE Undefined,
                         expires_at |-> ExpiresAt(now, expires_in)]
                  IN /\ stored' = SaveConfig(stored, config)
                     /\ lastPartial' = config
                     /\ saves' = saves + 1
                     /\ issued' = issued + 1
                     /\ latestToken' = NewToken
                     /\ apc' = "done"
                     /\ UNCHANGED authError
    /\ UNCHANGED <<nonce, promise, server, certDir, authUrlState, browser, shortLived,
                   lastReq, lastHttp, nReq, validSeen, exchanges, sentCode, pipeVars,
                   env, rpc, loaded, loads, nCmd, cmd, nProfile, raceVars, parseVars>>

\* Boolean(v) of an optional boolean
JsBoolean(v) == v = "true"

PostIds == {"9001"}

\* deletePost(client, postId) up to its await
CallDeletePost ==
    /\ pc = "idle"
    /\ \E postId \in PostIds :
          /\ op' = "deletePost"
          /\ Issue("DELETE", <<postId>>, NoBody)
          /\ pc' = "delete"
    /\ UNCHANGED <<authVars, cliVars, clientVars, text, media_type, image_url, video_url,
                   mediaUrls, idx, itemIds, container, pollVars, result, nextId,
                   finished, createdIds, childrenSent, countVars>>

\* the DELETE request settles: deletePost returns Boolean(res.success), kept in
\* the id field of the result as "true" or "false"
DeleteResume ==
    /\ pc = "delete"
    /\ tpc \in {"returned", "threw"}
    /\ IF tpc = "threw"
       THEN Rethrow
       ELSE /\ pc' = "done"
            /\ result' = Returned(IF JsBoolean(ret.success) THEN "true" ELSE "false")
            /\ Clear
    /\ UNCHANGED <<authVars, cliVars, clientVars, inputVars, idx, itemIds, container, pollVars,
                   nextId, finished, createdIds, childrenSent, countVars>>

(***************************************************************************)
(* cli.ts: the refresh and me commands, one command per invocation         *)
(***************************************************************************)
ProfileFields == "id,username,threads_profile_picture_url,threads_biography"

\* the invocations that run saveConfig over the same config.json at the same time
Procs == {1, 2}

\* the partial records the commands save: refresh's, the user-id resolution's, auth's
SavedPartials ==
    {[NoPartial EXCEPT !.access_token = "LL1", !.expires_at = ExpiresAt(1000, 60)],
     [NoPartial EXCEPT !.user_id = "17841"],
     [app_id |-> AppId, app_secret |-> AppSecret, access_token |-> "LL2",
      user_id |-> "17841", expires_at |-> ExpiresAt(1000, 60)]}

\* no saveConfig of a concurrent invocation is under way
RaceIdle ==
    /\ wpc = [p \in Procs |-> "idle"]
    /\ wexisting = [p \in Procs |-> EmptyConfig]
    /\ wconfig = [p \in Procs |-> NoPartial]
    /\ torn = FALSE
    /\ written = <<>>

\* what a step of saveConfig leaves alone besides the file and its own locals
raceFrame ==
    <<apc, nonce, promise, server, certDir, authUrlState, browser, shortLived,
      authError, lastReq, lastHttp, nReq, validSeen, exchanges, sentCode, answered,
      pipeVars, env, rpc, loaded, issued, latestToken, lastPartial, loads, nCmd, cmd,
      nProfile, parseVars>>

\* saveConfig of invocation p reads: existsSync, readFileSync, JSON.parse.  A file
\* that another writeFileSync has truncated and not yet filled does not parse, and
\* the catch leaves existing = {}
SaveRead(p) ==
    /\ wpc[p] = "start"
    /\ wexisting' = [wexisting EXCEPT ![p] = IF torn THEN EmptyConfig ELSE stored]
    /\ wpc' = [wpc EXCEPT ![p] = "merged"]
    /\ UNCHANGED <<raceFrame, stored, saves, wconfig, torn, written>>

\* writeFileSync of invocation p opens config.json, which truncates it
SaveOpen(p) ==
    /\ wpc[p] = "merged"
    /\ torn' = TRUE
    /\ wpc' = [wpc EXCEPT ![p] = "writing"]
    /\ UNCHANGED <<raceFrame, stored, saves, wexisting, wconfig, written>>

\* writeFileSync of invocation p writes { ...existing, ...config } and closes
SaveWrite(p) ==
    /\ wpc[p] = "writing"
    /\ stored' = SaveConfig(wexisting[p], wconfig[p])
    /\ saves' = saves + 1
    /\ torn' = FALSE
    /\ written' = Append(written, p)
    /\ wpc' = [wpc EXCEPT ![p] = "done"]
    /\ UNCHANGED <<raceFrame, wexisting, wconfig>>

\* nothing loaded, no refresh running, no invocation ended
CliIdle ==
    /\ rpc = "idle"
    /\ loaded = NoLoaded
    /\ issued = 0
    /\ latestToken = Undefined
    /\ lastPartial = NoPartial
    /\ loads = 0
    /\ nCmd = 0
    /\ cmd = "none"
    /\ nProfile = 0
    /\ RaceIdle
    /\ ParseIdle

\* "thrd refresh" up to its await: loadConfig, then refreshToken's fetch leaves
RefreshCommand ==
    /\ NoCommand
    /\ loaded' = LoadConfig(stored, env)
    /\ loads' = loads + 1
    /\ rpc' = IF LoadConfig(stored, env).threw THEN "failed" ELSE "refresh"
    /\ UNCHANGED <<authVars, pipeVars, env, issued, latestToken, lastPartial, nCmd, cmd,
                   nProfile, raceVars, parseVars>>

\* the refresh endpoint answers refreshToken; on success the expiry is computed
\* and the token and the expiry are saved
RefreshAnswer ==
    /\ rpc = "refresh"
    /\ \E http \in {200, 400}, expires_in \in {0, 60}, now \in WallClocks :
          IF ~Ok(http)
          THEN /\ rpc' = "failed"
               /\ UNCHANGED <<stored, saves, issued, latestToken, lastPartial>>
          ELSE LET config == [NoPartial EXCEPT !.access_token = NewToken,
                                               !.expires_at = ExpiresAt(now, expires_in)]
               IN /\ stored' = SaveConfig(stored, config)
                  /\ lastPartial' = config
                  /\ saves' = saves + 1
                  /\ issued' = issued + 1
                  /\ latestToken' = NewToken
                  /\ rpc' = "done"
    /\ UNCHANGED <<answered, apc, nonce, promise, server, certDir, authUrlState, browser,
                   shortLived, authError, lastReq, lastHttp, nReq, validSeen, exchanges,
                   sentCode, pipeVars, env, loaded, loads, nCmd, cmd, nProfile,
                   raceVars, parseVars>>

\* "thrd me" up to its await: getClient (loadConfig, new ThreadsClient), then the
\* profile request leaves
CallMe ==
    /\ NoCommand
    /\ op' = "me"
    /\ loaded' = LoadConfig(stored, env)
    /\ loads' = loads + 1
    /\ IF LoadConfig(stored, env).threw
       THEN /\ Throw(MsgMissing)
            /\ UNCHANGED <<userId, accessToken, nProfile>>
       ELSE /\ accessToken' = LoadConfig(stored, env).config.access_token
            /\ userId' = LoadConfig(stored, env).config.user_id
            /\ IssueWith(LoadConfig(stored, env).config.access_token, "GET", <<"me">>,
                         [NoBody EXCEPT !.fields = ProfileFields])
            /\ nProfile' = nProfile + 1
            /\ pc' = "me"
            /\ UNCHANGED result
    /\ UNCHANGED <<authVars, onRateLimit, text, media_type, image_url, video_url,
                   mediaUrls, idx, itemIds, container, pollVars, nextId, finished,
                   createdIds, childrenSent, countVars, env, rpc, issued, latestToken,
                   lastPartial, nCmd, cmd, raceVars, parseVars>>

\* the profile request settles: the user id is saved when the client had none
MeResume ==
    /\ pc = "me"
    /\ tpc \in {"returned", "threw"}
    /\ IF tpc = "threw"
       THEN /\ Rethrow
            /\ UNCHANGED <<stored, saves, lastPartial>>
       ELSE /\ pc' = "done"
            /\ result' = Returned(ret.id)
            /\ Clear
            /\ IF ~Truthy(userId) /\ Truthy(ret.id)
               THEN /\ stored' = SaveConfig(stored, [NoPartial EXCEPT !.user_id = ret.id])
                    /\ lastPartial' = [NoPartial EXCEPT !.user_id = ret.id]
                    /\ saves' = saves + 1
               ELSE UNCHANGED <<stored, saves, lastPartial>>
    /\ UNCHANGED <<answered, apc, nonce, promise, server, certDir, authUrlState, browser,
                   shortLived, authError, lastReq, lastHttp, nReq, validSeen, exchanges,
                   sentCode, clientVars, inputVars, idx, itemIds, container, pollVars,
                   nextId, finished, createdIds, childrenSent, countVars, env, rpc,
                   loaded, issued, latestToken, loads, nCmd, cmd, nProfile, raceVars, parseVars>>

\* the process exits: a command that threw is ended by process.exit(1), a command
\* that returned ends when nothing is left to wait for (the listener is closed);
\* the next invocation starts from the credential store and the environment
Exit ==
    /\ nCmd < MaxCommands
    /\ \/ apc = "failed"
       \/ apc = "done" /\ server = "closed"
       \/ rpc \in {"done", "failed"}
       \/ pc = "done"
    /\ nCmd' = nCmd + 1
    /\ rpc' = "idle"
    /\ loaded' = NoLoaded
    /\ apc' = "idle"
    /\ nonce' = ""
    /\ promise' = Pending
    /\ server' = "none"
    /\ certDir' = "none"
    /\ authUrlState' = Null
    /\ browser' = "none"
    /\ shortLived' = NoToken
    /\ authError' = NoError
    /\ lastReq' = NoRequest
    /\ lastHttp' = 0
    /\ nReq' = 0
    /\ validSeen' = FALSE
    /\ exchanges' = 0
    /\ sentCode' = Null
    /\ answered' = <<>>
    /\ saves' = 0
    /\ userId' = ""
    /\ accessToken' = Undefined
    /\ op' = "none"
    /\ pc' = "idle"
    /\ result' = NoResult
    /\ fetched' = FALSE
    /\ cmd' = "none"
    /\ nProfile' = 0
    /\ UNCHANGED <<onRateLimit, text, media_type, image_url, video_url, mediaUrls, idx,
                   itemIds, container, pollVars, requestVars, nextId, finished,
                   createdIds, childrenSent, countVars, stored, env, issued,
                   latestToken, lastPartial, loads, raceVars, parseVars>>

\* ensureUserId fetching the profile whatever the client holds
UserIdKnownNever(uid) == FALSE

\* ensureUserId: if (client.userId) return
UserIdKnown(uid) == Truthy(uid)

\* the commands that build a client with getClient and call the platform
Commands ==
    {"post", "carousel", "delete", "timeline", "reply", "replies", "hide", "unhide",
     "insights", "mediaInsights"}
\* those that call ensureUserId before their operation
EnsuringCommands == {"post", "carousel", "timeline", "reply"}
ThreadIds == {"9001"}

\* the arguments of "thrd post": a text, an image or a video is given
PostCommandArgs == {<<"hello", NoUrl, NoUrl>>, <<"", ImageUrl, NoUrl>>}
\* the arguments of "thrd reply <thread-id> <text>"
ReplyCommandArgs == {<<"hello", NoUrl, NoUrl>>}
\* the --media lists of "thrd carousel"
CarouselCommandLists == {<<ImageUrl>>, <<ImageUrl, VideoUrl>>}

\* the action of command c up to its first await: getClient (loadConfig, new
\* ThreadsClient), then ensureUserId up to its return or its profile request,
\* or the client function of a command that does not call ensureUserId
CallCommand ==
    /\ NoCommand
    /\ cmd = "none"
    /\ \E c \in Commands, id \in ThreadIds :
          LET l == LoadConfig(stored, env)
              token == l.config.access_token
              uid == l.config.user_id
          IN /\ cmd' = c
             /\ loaded' = l
             /\ loads' = loads + 1
             /\ IF l.threw
                THEN /\ Throw(MsgMissing)
                     /\ UNCHANGED <<userId, accessToken, nProfile, op>>
                ELSE /\ accessToken' = token
                     /\ userId' = uid
                     /\ CASE c \in EnsuringCommands /\ UserIdKnown(uid) ->
                               /\ pc' = "ensured"
                               /\ UNCHANGED <<requestVars, fetched, result, nProfile, op>>
                          [] c \in EnsuringCommands /\ ~UserIdKnown(uid) ->
                               /\ IssueWith(token, "GET", <<"me">>,
                                            [NoBody EXCEPT !.fields = ProfileFields])
                               /\ nProfile' = nProfile + 1
                               /\ pc' = "ensure"
                               /\ UNCHANGED <<result, op>>
                          [] c = "delete" ->
                               /\ op' = "deletePost"
                               /\ IssueWith(token, "DELETE", <<id>>, NoBody)
                               /\ pc' = "delete"
                               /\ UNCHANGED <<result, nProfile>>
                          [] c = "replies" ->
                               /\ op' = "getReplies"
                               /\ IssueWith(token, "GET", <<id, "replies">>,
                                            [NoBody EXCEPT !.fields = PostFields])
                               /\ pc' = "read"
                               /\ UNCHANGED <<result, nProfile>>
                          [] c \in {"hide", "unhide"} ->
                               /\ op' = IF c = "hide" THEN "hideReply" ELSE "unhideReply"
                               /\ IssueWith(token, "POST", <<id, "manage_reply">>,
                                            [NoBody EXCEPT !.hide = IF c = "hide" THEN "true"
                                                                   ELSE "false"])
                               /\ pc' = "manage"
                               /\ UNCHANGED <<result, nProfile>>
                          [] c = "mediaInsights" ->
                               /\ op' = "getMediaInsights"
                               /\ IssueWith(token, "GET", <<id, "insights">>, NoBody)
                               /\ pc' = "read"
                               /\ UNCHANGED <<result, nProfile>>
                          [] c = "insights" ->
                               /\ op' = "getUserInsights"
                               /\ IF ~Truthy(uid)
                                  THEN Throw(MsgUserId)
                                  ELSE /\ IssueWith(token, "GET", <<uid, "threads_insights">>,
                                                    NoBody)
                                       /\ pc' = "read"
                                       /\ UNCHANGED result
                               /\ UNCHANGED nProfile
    /\ UNCHANGED <<authVars, onRateLimit, text, media_type, image_url, video_url,
                   mediaUrls, idx, itemIds, container, pollVars, nextId, finished,
                   createdIds, childrenSent, countVars, env, rpc, issued, latestToken,
                   lastPartial, nCmd, raceVars, parseVars>>

\* the profile request of ensureUserId settles: the id of the answer becomes the
\* client's user id and is saved
EnsureResume ==
    /\ pc = "ensure"
    /\ tpc \in {"returned", "threw"}
    /\ IF tpc = "threw"
       THEN /\ Rethrow
            /\ UNCHANGED <<userId, stored, saves, lastPartial>>
       ELSE /\ userId' = ret.id
            /\ stored' = SaveConfig(stored, [NoPartial EXCEPT !.user_id = ret.id])
            /\ lastPartial' = [NoPartial EXCEPT !.user_id = ret.id]
            /\ saves' = saves + 1
            /\ pc' = "ensured"
            /\ Clear
            /\ UNCHANGED result
    /\ UNCHANGED <<answered, apc, nonce, promise, server, certDir, authUrlState, browser,
                   shortLived, authError, lastReq, lastHttp, nReq, validSeen, exchanges,
                   sentCode, accessToken, onRateLimit, inputVars, idx, itemIds, container,
                   pollVars, nextId, finished, createdIds, childrenSent, countVars, env,
                   rpc, loaded, issued, latestToken, loads, nCmd, cmd, nProfile, raceVars, parseVars>>

\* "thrd post" after ensureUserId: createPost
PostResume ==
    /\ pc = "ensured"
    /\ cmd = "post"
    /\ CreatePostOf(PostCommandArgs)

\* "thrd reply" after ensureUserId: createPost
ReplyResume ==
    /\ pc = "ensured"
    /\ cmd = "reply"
    /\ CreatePostOf(ReplyCommandArgs)

\* "thrd carousel" after ensureUserId: createCarouselPost
CarouselResume ==
    /\ pc = "ensured"
    /\ cmd = "carousel"
    /\ CreateCarouselPostOf(CarouselCommandLists)

\* "thrd timeline" after ensureUserId: getUserThreads
TimelineResume ==
    /\ pc = "ensured"
    /\ cmd = "timeline"
    /\ GetUserThreads

\* the request of hideReply or unhideReply settles: Boolean(res.success) is
\* returned, kept in the id field of the result as "true" or "false"
ManageResume ==
    /\ pc = "manage"
    /\ tpc \in {"returned", "threw"}
    /\ IF tpc = "threw"
       THEN Rethrow
       ELSE /\ pc' = "done"
            /\ result' = Returned(IF JsBoolean(ret.success) THEN "true" ELSE "false")
            /\ Clear
    /\ UNCHANGED <<authVars, cliVars, clientVars, inputVars, idx, itemIds, container, pollVars,
                   nextId, finished, createdIds, childrenSent, countVars>>

Init ==
    /\ userId \in UserIds
    /\ accessToken = OldConfig.access_token
    /\ onRateLimit \in BOOLEAN
    /\ PipeInit
    /\ AuthIdle
    /\ stored = OldConfig
    /\ env = NoEnv
    /\ CliIdle

Next ==
    \/ CallCreatePost
    \/ CallCreateCarouselPost
    \/ FetchRespond
    \/ HandleRateLimit
    \/ RateLimitRetry
    \/ CreateContainerResume
    \/ PollResume
    \/ PollWake
    \/ CarouselParentResume
    \/ PublishResume
    \/ CallDeletePost
    \/ DeleteResume
    \/ CallPublishContainer
    \/ CallGetUserThreads
    \/ CallGetUserInsights
    \/ ReadResume

Spec == Init /\ [][Next]_vars

\* createPost alone; every awaited event (a fetch settling, a timer firing, the
\* resumption of the awaiting function) eventually arrives
NextPost ==
    \/ CallCreatePost
    \/ FetchRespond
    \/ HandleRateLimit
    \/ RateLimitRetry
    \/ CreateContainerResume
    \/ PollResume
    \/ PollWake
    \/ PublishResume

FairPostSpec == Init /\ [][NextPost]_vars /\ WF_vars(NextPost)

\* the OAuth flow of one "thrd auth" invocation
AuthInit ==
    /\ userId = ""
    /\ accessToken = Undefined
    /\ onRateLimit = FALSE
    /\ PipeInit
    /\ AuthIdle
    /\ stored \in {EmptyConfig, OldConfig}
    /\ env = NoEnv
    /\ CliIdle

AuthNext ==
    \/ Authenticate
    \/ ListenOk
    \/ ListenError
    \/ HandleRequest
    \/ ServerClosed
    \/ TokenAnswer
    \/ LongLivedAnswer

AuthSpec == AuthInit /\ [][AuthNext]_vars

\* the requests that reach the listener in the invocations of CliSpec: a valid
\* callback for either nonce, a denied one, a request to another path
CliRequests ==
    {[path |-> "/callback", code |-> "c1", state |-> n, error |-> Null] : n \in Nonces}
    \cup {[path |-> "/callback", code |-> Null, state |-> Null,
            error |-> "access_denied"],
          [path |-> "/favicon.ico", code |-> Null, state |-> Null, error |-> Null]}

CliHandleRequest == HandleRequestFrom(CliRequests)

\* a sequence of invocations of the auth, refresh and me commands over one
\* credential store and one environment
CliInit ==
    /\ userId = ""
    /\ accessToken = Undefined
    /\ onRateLimit \in BOOLEAN
    /\ PipeInit
    /\ AuthIdle
    /\ stored \in {EmptyConfig, OldConfig}
    /\ env \in Envs
    /\ CliIdle

CliNext ==
    \/ Authenticate
    \/ ListenOk
    \/ ListenError
    \/ CliHandleRequest
    \/ ServerClosed
    \/ TokenAnswer
    \/ LongLivedAnswer
    \/ RefreshCommand
    \/ RefreshAnswer
    \/ CallMe
    \/ FetchRespond
    \/ HandleRateLimit
    \/ RateLimitRetry
    \/ MeResume
    \/ Exit

CliSpec == CliInit /\ [][CliNext]_vars

\* the stored records of the command invocations: none, a full one, one without
\* user id
CmdStores == {EmptyConfig, OldConfig, [OldConfig EXCEPT !.user_id = Undefined]}

\* one invocation of any command of the CLI
CmdInit ==
    /\ userId = ""
    /\ accessToken = Undefined
    /\ onRateLimit \in BOOLEAN
    /\ PipeInit
    /\ AuthIdle
    /\ stored \in CmdStores
    /\ env \in Envs
    /\ CliIdle

CmdNext ==
    \/ Authenticate
    \/ ListenOk
    \/ ListenError
    \/ CliHandleRequest
    \/ ServerClosed
    \/ TokenAnswer
    \/ LongLivedAnswer
    \/ RefreshCommand
    \/ RefreshAnswer
    \/ CallMe
    \/ MeResume
    \/ CallCommand
    \/ EnsureResume
    \/ PostResume
    \/ ReplyResume
    \/ CarouselResume
    \/ TimelineResume
    \/ FetchRespond
    \/ HandleRateLimit
    \/ RateLimitRetry
    \/ CreateContainerResume
    \/ PollResume
    \/ PollWake
    \/ CarouselParentResume
    \/ PublishResume
    \/ DeleteResume
    \/ ReadResume
    \/ ManageResume

CmdSpec == CmdInit /\ [][CmdNext]_vars

\* parseResponse settles for the response handed to it
ParseResponseStep ==
    /\ res /= NoResponse
    /\ parsed = NoOutcome
    /\ parsed' = ParseResponseBody(res)
    /\ UNCHANGED <<pipeVars, authVars, env, rpc, loaded, issued, latestToken, lastPartial,
                   loads, nCmd, cmd, nProfile, raceVars, res>>

\* parseResponse applied to every status and body tried
ParseInit ==
    /\ userId = ""
    /\ accessToken = Undefined
    /\ onRateLimit = FALSE
    /\ PipeInit
    /\ AuthIdle
    /\ stored = EmptyConfig
    /\ env = NoEnv
    /\ rpc = "idle"
    /\ loaded = NoLoaded
    /\ issued = 0
    /\ latestToken = Undefined
    /\ lastPartial = NoPartial
    /\ loads = 0
    /\ nCmd = 0
    /\ cmd = "none"
    /\ nProfile = 0
    /\ RaceIdle
    /\ res \in Responses
    /\ parsed = NoOutcome

ParseNext == ParseResponseStep

ParseSpec == ParseInit /\ [][ParseNext]_vars

\* two invocations each save one partial record over the same credential store;
\* the reads and writes of the two saveConfig calls interleave freely
RaceInit ==
    /\ userId = ""
    /\ accessToken = Undefined
    /\ onRateLimit = FALSE
    /\ PipeInit
    /\ AuthIdle
    /\ stored \in {EmptyConfig, OldConfig}
    /\ env = NoEnv
    /\ rpc = "idle"
    /\ loaded = NoLoaded
    /\ issued = 0
    /\ latestToken = Undefined
    /\ lastPartial = NoPartial
    /\ loads = 0
    /\ nCmd = 0
    /\ cmd = "none"
    /\ nProfile = 0
    /\ wpc = [p \in Procs |-> "start"]
    /\ wexisting = [p \in Procs |-> EmptyConfig]
    /\ wconfig \in [Procs -> SavedPartials]
    /\ torn = FALSE
    /\ written = <<>>
    /\ ParseIdle

RaceNext ==
    \/ \E p \in Procs : SaveRead(p)
    \/ \E p \in Procs : SaveOpen(p)
    \/ \E p \in Procs : SaveWrite(p)

RaceSpec == RaceInit /\ [][RaceNext]_vars

(***************************************************************************)
(* Properties of the transport and of the publish pipeline                 *)
(***************************************************************************)
Settled == tpc \in {"returned", "threw"}
Range(q) == {q[k] : k \in 1..Len(q)}

\* C1: a request answered 429, 429, 200 returns the successful result after
\* exactly two waits and three HTTP attempts; a request answered 429 three times
\* ends with an error after exactly two waits and is never submitted a fourth time.
C1_RateLimitRetryCap ==
    /\ Len(resps) <= 3
    /\ retryCount <= 2
    /\ (Settled /\ resps = <<429, 429, 200>>)
          => (tpc = "returned" /\ ret.ok /\ waits = 2 /\ retryCount = 2)
    /\ (resps = <<429, 429, 429>>)
          => (tpc = "threw" /\ ~ret.ok /\ ret.http = 429 /\ waits = 2
              /\ retryCount = 2)
    /\ (tpc = "fetch") => (waits = Len(resps) /\ retryCount = Len(resps))

C1_Witness == tpc = "threw" /\ resps = <<429, 429, 429>> /\ waits = 2

\* C4: createCarouselPost with fewer than 2 or more than 10 media URLs fails
\* without any HTTP request; with a user id and 2 to 10 URLs it passes validation
\* and issues the first container-creation request.
C4_CarouselSizeValidated ==
    (op = "createCarouselPost") =>
        /\ (Len(mediaUrls) < 2 \/ Len(mediaUrls) > 10)
              => (~fetched /\ pc = "done" /\ result.kind = "error" /\ nCreate = 0)
        /\ (userId /= "" /\ Len(mediaUrls) >= 2 /\ Len(mediaUrls) <= 10)
              => (fetched /\ nCreate >= 1
                  /\ result.msg /= "Carousel requires 2-10 media items.")

C4_Witness ==
    /\ op = "createCarouselPost"
    /\ userId /= ""
    /\ Len(mediaUrls) = 10
    /\ nCreate = 1
    /\ tpc = "fetch"
    /\ req.body.is_carousel_item

\* C5: a publish request (for a carousel child, the parent-container request) is
\* issued only after a status check of that container returned FINISHED; a status
\* check returning ERROR or EXPIRED fails the operation, with two distinct errors,
\* and no publish request is issued afterwards.
C5_PublishOnlyAfterFinished ==
    /\ [](/\ (op = "createPost" /\ (image_url /= NoUrl \/ video_url /= NoUrl)
                 /\ nPublish > 0) => (1 \in finished)
          /\ (op = "createCarouselPost" /\ nParent > 0)
                 => (\A i \in 1..Len(mediaUrls) : i \in finished)
          /\ (pc = "done" /\ result.kind = "error") => ~ENABLED Next)
    /\ [][(pc = "status" /\ tpc = "returned" /\ ret.status = "ERROR")
             => (/\ pc' = "done"
                 /\ result'.kind = "error"
                 /\ result'.msg = "Container error: "
                 /\ nPublish' = 0
                 /\ nParent' = 0)]_vars
    /\ [][(pc = "status" /\ tpc = "returned" /\ ret.status = "EXPIRED")
             => (/\ pc' = "done"
                 /\ result'.kind = "error"
                 /\ result'.msg = "Container expired before publishing."
                 /\ nPublish' = 0
                 /\ nParent' = 0)]_vars

C5_Witness ==
    /\ op = "createCarouselPost"
    /\ idx = 2
    /\ pc = "done"
    /\ result.msg = "Container expired before publishing."
    /\ finished = {1}

\* C6: whenever more than 60s have elapsed since the first poll without FINISHED
\* having been observed, time inside a status request (a rate-limit wait)
\* included, the operation fails with the timeout error and no publish request
\* is issued.  The clock of a createPost stops when its one poll ends, so
\* elapsed > 60000 says that the deadline passed before the poll ended.
C6_DeadlineCoversRequestTime ==
    (op = "createPost" /\ elapsed > 60000)
        => (/\ nPublish = 0
            /\ result.kind /= "ok"
            /\ (pc = "done" /\ result.msg /= "Threads API error "
                   /\ result.msg /= MsgObserver)
                  => result.msg = "Container status polling timed out after 60s.")

\* C7: a container whose status checks return IN_PROGRESS, IN_PROGRESS, FINISHED
\* is published, and the post succeeds when the publish request does; a container
\* whose status checks return only IN_PROGRESS makes polling end, with the
\* timeout error and not the ERROR or EXPIRED error, and nothing is published.
C7_PollSequences ==
    /\ [][(/\ pc = "status" /\ tpc = "returned"
            /\ polls = 3 /\ inProgress /\ ret.status = "FINISHED")
             => (pc' = "publish" /\ nPublish' = 1 /\ tpc' = "fetch"
                 /\ req'.body.creation_id = container)]_vars
    /\ [][(pc = "publish" /\ tpc = "returned")
             => (pc' = "done" /\ result'.kind = "ok" /\ result'.id = ret.id)]_vars
    /\ [](/\ (pc = "done" /\ polls >= 1 /\ inProgress)
                 => (/\ result.kind = "error"
                     /\ result.msg = "Container status polling timed out after 60s."
                     /\ nPublish = 0
                     /\ elapsed >= 60000)
          /\ (pc = "done") => ~ENABLED NextPost)
    /\ (pc \in {"status", "sleep"}) ~> (pc \notin {"status", "sleep"})
    /\ <>(pc = "done")

C7_Witness ==
    /\ pc = "done"
    /\ polls = 30
    /\ inProgress
    /\ result.msg = "Container status polling timed out after 60s."

\* C8: createPost with neither image_url nor video_url issues exactly one
\* container-creation request followed by one publish request and never a status
\* check; with image_url or video_url at least one status check lies between
\* creation and publish.
C8_TextSkipsPolling ==
    (op = "createPost") =>
        /\ (image_url = NoUrl /\ video_url = NoUrl)
              => (/\ polls = 0
                  /\ pc \notin {"status", "sleep"}
                  /\ (fetched => nCreate = 1)
                  /\ nPublish <= 1
                  /\ (nPublish = 1 => Len(createdIds) = 1)
                  /\ (result.kind = "ok" => nPublish = 1)
                  /\ (pc = "publish" => req.body.creation_id = createdIds[1]))
        /\ (image_url /= NoUrl \/ video_url /= NoUrl)
              => (/\ (nPublish >= 1 => (polls >= 1 /\ Len(createdIds) = 1))
                  /\ (polls >= 1 => Len(createdIds) = 1)
                  /\ nPublish <= 1
                  /\ nCreate <= 1)

C8_Witness ==
    /\ op = "createPost"
    /\ image_url = NoUrl
    /\ video_url = NoUrl
    /\ pc = "done"
    /\ result.kind = "ok"
    /\ nCreate = 1
    /\ nPublish = 1

\* C9: the carousel children are processed one at a time: the creation request
\* for item i+1 is issued only after item i's container has been polled to
\* FINISHED, the parent CAROUSEL request only after every child has been polled
\* to FINISHED, followed by exactly one publish request, for the parent.
C9_CarouselSequential ==
    (op = "createCarouselPost") =>
        /\ nCreate <= Len(mediaUrls)
        /\ \A j \in 1..(nCreate - 1) : j \in finished
        /\ (pc \in {"create", "status", "sleep"}) => idx = nCreate
        /\ nParent <= 1
        /\ (nParent = 1)
              => (nCreate = Len(mediaUrls) /\ finished = 1..Len(mediaUrls))
        /\ nPublish <= 1
        /\ (nPublish = 1) => nParent = 1
        /\ (pc = "publish")
              => (/\ req.body.creation_id = container
                  /\ container \notin Range(createdIds)
                  /\ Len(createdIds) = Len(mediaUrls))
        /\ (result.kind = "ok") => nPublish = 1

C9_Witness ==
    /\ op = "createCarouselPost"
    /\ Len(mediaUrls) = 3
    /\ pc = "done"
    /\ result.kind = "ok"
    /\ nCreate = 3
    /\ nParent = 1
    /\ nPublish = 1

\* C10: the children list sent in the parent CAROUSEL request is the sequence of
\* child container ids in the order of the input media URLs, one id per URL.
C10_ChildrenInInputOrder ==
    (nParent = 1) =>
        /\ Len(createdIds) = Len(mediaUrls)
        /\ Len(childrenSent) = 2 * Len(mediaUrls) - 1
        /\ \A i \in 1..Len(mediaUrls) : childrenSent[2 * i - 1] = createdIds[i]
        /\ \A i \in 1..(Len(mediaUrls) - 1) : childrenSent[2 * i] = ","
        /\ (pc = "parent" /\ tpc = "fetch") => req.body.children = childrenSent

C10_Witness ==
    /\ pc = "parent"
    /\ tpc = "fetch"
    /\ Len(mediaUrls) = 10
    /\ childrenSent[1] = "1"
    /\ childrenSent[19] = "10"

\* the error with which the current child of the carousel fails at this point:
\* its creation or status request threw, its status is ERROR or EXPIRED, or the
\* poll interval ends at or after the deadline
ChildFailure ==
    CASE (pc \in {"create", "status"} /\ tpc = "threw")
             -> Thrown(ret.msg, ret.http, ret.detail)
      [] (pc = "status" /\ tpc = "returned" /\ ret.status = "ERROR")
             -> Thrown("Container error: ", 0, "")
      [] (pc = "status" /\ tpc = "returned" /\ ret.status = "EXPIRED")
             -> Thrown("Container expired before publishing.", 0, "")
      [] (pc = "sleep" /\ elapsed + 2000 >= 60000)
             -> Thrown("Container status polling timed out after 60s.", 0, "")
      [] OTHER -> NoResult

\* C11: in createCarouselPost, when the creation or the polling of a child fails
\* (request error, ERROR, EXPIRED or timeout), the operation fails with that
\* error; no container is created for a later media item, no parent CAROUSEL
\* container is created and no publish request is issued, then or afterwards.
C11_ChildFailureStopsCarousel ==
    /\ [][(op = "createCarouselPost" /\ ChildFailure /= NoResult)
             => (/\ pc' = "done"
                 /\ result' = ChildFailure
                 /\ tpc' = "idle"
                 /\ nCreate' = nCreate /\ nCreate' = idx
                 /\ nParent' = 0
                 /\ nPublish' = 0)]_vars
    /\ [][(op = "createCarouselPost" /\ pc = "done" /\ result.kind = "error")
             => UNCHANGED <<pc, result, tpc, countVars, fetched>>]_vars
    /\ [](op = "createCarouselPost" /\ pc = "done" /\ result.kind = "error"
              => (nParent = 0 => (nPublish = 0 /\ nCreate <= idx)))

C11_Witness ==
    /\ op = "createCarouselPost"
    /\ Len(mediaUrls) = 4
    /\ pc = "done"
    /\ idx = 2
    /\ result.msg = "Container status polling timed out after 60s."
    /\ nCreate = 2
    /\ nParent = 0
    /\ nPublish = 0

\* the path of a URL: what precedes its query string or fragment
RECURSIVE PathOf(_)
PathOf(url) ==
    IF url = <<>> \/ Head(url) \in QueryStarts
    THEN <<>>
    ELSE <<Head(url)>> \o PathOf(Tail(url))

\* does the path of the URL end in .mp4 or .mov, in any letter case?
PathIsVideo(url) ==
    PathOf(url) /= <<>>
        /\ PathOf(url)[Len(PathOf(url))] \in {".mp4", ".MP4", ".mov", ".MOV"}

\* C12: for every media URL given to createCarouselPost, the child container is
\* created with media type VIDEO and the URL as video_url if the URL's path ends
\* in .mp4 or .mov in any letter case, also when a query string or a fragment
\* follows the path, and otherwise with media type IMAGE and the URL as image_url.
C12_ClassifiedByPath ==
    (op = "createCarouselPost" /\ pc = "create" /\ tpc = "fetch") =>
        IF PathIsVideo(mediaUrls[idx])
        THEN /\ req.body.media_type = "VIDEO"
             /\ req.body.video_url = mediaUrls[idx]
             /\ req.body.image_url = NoUrl
        ELSE /\ req.body.media_type = "IMAGE"
             /\ req.body.image_url = mediaUrls[idx]
             /\ req.body.video_url = NoUrl

\* C13: in request, HTTP 429 is the only answer that causes a retry: any other
\* non-success status makes the request throw after that single attempt, with no
\* wait and no further attempt, for GET, DELETE and POST alike, also when it
\* answers a retry attempt.
C13_OnlyRateLimitRetried ==
    /\ [](/\ \A k \in 1..(Len(resps) - 1) : resps[k] = 429
          /\ waits <= Len(resps)
          /\ (tpc = "wait") => (resps[Len(resps)] = 429)
          /\ (Len(resps) > 0 /\ resps[Len(resps)] /= 429 /\ ~Ok(resps[Len(resps)]))
                 => (/\ tpc = "threw"
                     /\ ~ret.ok
                     /\ ret.msg = "Threads API error "
                     /\ ret.http = resps[Len(resps)]
                     /\ waits = Len(resps) - 1
                     /\ retryCount = Len(resps) - 1))
    /\ [][(tpc = "threw")
             => (/\ tpc' = "idle"
                 /\ pc' = "done"
                 /\ result'.kind = "error"
                 /\ result'.http = ret.http
                 /\ fetched' = fetched
                 /\ countVars' = countVars)]_vars

C13_Witness ==
    /\ req.method = "DELETE"
    /\ resps = <<429, 500>>
    /\ tpc = "threw"
    /\ ret.http = 500
    /\ waits = 1

\* C14: on every rate-limit retry the onRateLimit observer, when supplied, is
\* called once before the wait with the retry number (1, then 2), and whatever
\* the observer does, throwing included, the wait and the resubmission still
\* take place.
C14_ObserverNeverFailsRetry ==
    /\ [][(/\ tpc = "fetch"
            /\ retryCount < 2
            /\ resps' = Append(resps, 429))
             => (/\ tpc' = "wait"
                 /\ notified' = IF onRateLimit THEN Append(notified, retryCount + 1)
                                               ELSE notified)]_vars
    /\ [][(tpc = "wait") => (tpc' = "fetch" /\ retryCount' = retryCount + 1
                              /\ req' = req)]_vars

(***************************************************************************)
(* Properties of the OAuth flow                                            *)
(***************************************************************************)
\* this step handles a /callback request
CallbackHandled == nReq' = nReq + 1 /\ lastReq'.path = "/callback"

C3_AnyErrorParamDenies ==
    [][(CallbackHandled /\ lastReq'.error /= Null)
         => (apc' = "failed" /\ authError'.msg = "OAuth error: ")]_vars

\* C3 (amended): a /callback request carrying a non-empty error parameter that
\* arrives while the flow is still unsettled fails the flow with the
\* provider-denied error, whatever code and state it carries, and that error
\* differs from the invalid-callback error of a missing code or mismatched state.
C3_ErrorParamDenies ==
    /\ [][(CallbackHandled /\ lastReq'.error /= Null /\ lastReq'.error /= ""
            /\ promise.st = "pending")
             => (/\ apc' = "failed"
                 /\ authError'.msg = "OAuth error: "
                 /\ authError'.detail = lastReq'.error
                 /\ authError'.msg /= "Invalid OAuth callback."
                 /\ exchanges' = 0
                 /\ lastHttp' = 400)]_vars
    /\ [][(CallbackHandled /\ lastReq'.error \in {Null, ""}
            /\ (lastReq'.code \in {Null, ""} \/ lastReq'.state /= authUrlState)
            /\ promise.st = "pending")
             => (apc' = "failed" /\ authError'.msg = "Invalid OAuth callback.")]_vars

C3_Witness ==
    /\ apc = "failed"
    /\ nReq = 1
    /\ lastReq.path = "/callback"
    /\ lastReq.error = "access_denied"
    /\ lastReq.code = "c1"
    /\ lastReq.state = nonce
    /\ authError.msg = "OAuth error: "

(***************************************************************************)
(* Properties of the credential store                                      *)
(***************************************************************************)
\* this step calls saveConfig
ConfigSaved == saves' = saves + 1

\* C15: for every stored record and every partial record handed to saveConfig by
\* authenticate, the refresh command and user-id resolution (an optional field
\* may be present without a value), the stored record afterwards has the new
\* value for each field the partial supplies a value for and the unchanged
\* previous value for every other field.
C15_SaveKeepsUnsuppliedFields ==
    [][ConfigSaved =>
          \A f \in ConfigFields :
              stored'[f] = IF lastPartial'[f] \in {Absent, Undefined}
                           THEN stored[f]
                           ELSE lastPartial'[f]]_vars

\* this step calls loadConfig
ConfigLoaded == loads' = loads + 1

\* the latest saveConfig stored a whole credential set
FullSetSaved == \A f \in ConfigFields : lastPartial[f] /= Absent

C17_RequestCarriesLatestToken ==
    (tpc = "fetch" /\ issued > 0)
        => (/\ req.access_token = latestToken
            /\ accessToken = latestToken
            /\ req.access_token /= "SL1")

(***************************************************************************)
(* Properties of the steps of authenticate and of the listener             *)
(***************************************************************************)
\* C18: in authenticate the steps run in the order callback capture, short-lived
\* exchange, long-lived exchange, save: a non-success status on the short-lived
\* exchange fails the flow without the long-lived exchange being issued, a
\* non-success status on either exchange fails the flow, and the credential
\* store is left unchanged by every failing flow.
C18_ExchangeOrderAndFailure ==
    /\ [](/\ Len(answered) <= exchanges
          /\ exchanges <= 2
          /\ saves <= 1
          /\ (exchanges >= 1) => (promise.st = "resolved" /\ sentCode = promise.code)
          /\ (exchanges = 2) => (Len(answered) >= 1 /\ answered[1] \in 200..299)
          /\ (saves = 1)
                 => (/\ Len(answered) = 2
                     /\ answered[1] \in 200..299
                     /\ answered[2] \in 200..299
                     /\ apc = "done")
          /\ (Len(answered) >= 1 /\ answered[1] \notin 200..299)
                 => (/\ apc = "failed"
                     /\ exchanges = 1
                     /\ Len(answered) = 1
                     /\ authError.msg = "Token exchange failed")
          /\ (Len(answered) = 2 /\ answered[2] \notin 200..299)
                 => (apc = "failed" /\ authError.msg = "Long-lived token exchange failed")
          /\ (apc = "failed") => (saves = 0 /\ lastPartial = NoPartial))
    /\ [][(saves' = saves) => (stored' = stored)]_vars
    /\ [][(apc = "failed") => (apc' = "failed" /\ exchanges' = exchanges)]_vars

C18_Witness ==
    /\ apc = "failed"
    /\ answered = <<200, 400>>
    /\ exchanges = 2
    /\ stored = OldConfig
    /\ saves = 0

\* this step handles a request to a path other than /callback
OtherPathHandled == nReq' = nReq + 1 /\ lastReq'.path /= "/callback"

\* C19: while the flow waits for the callback, a request to any path other than
\* /callback is answered 404 and changes nothing: the listener stays open, the
\* flow is neither resolved nor failed, and a later valid /callback request
\* still completes the flow, however many such requests came before.
C19_OtherPathsAnswered404 ==
    /\ [][OtherPathHandled
             => (/\ lastHttp' = 404
                 /\ UNCHANGED <<server, promise, apc, authError, exchanges, sentCode,
                                certDir, stored, saves, validSeen>>)]_vars
    /\ [](server = "listening"
              => (promise.st = "pending" /\ apc = "awaitCode" /\ certDir = "present"))
    /\ [][(/\ CallbackHandled
            /\ server = "listening"
            /\ lastReq'.code \notin {Null, ""}
            /\ lastReq'.state = nonce
            /\ lastReq'.error \in {Null, ""})
             => (/\ lastHttp' = 200
                 /\ promise' = Resolved(lastReq'.code)
                 /\ apc' = "exchangeCode"
                 /\ sentCode' = lastReq'.code)]_vars

C19_Witness ==
    /\ server = "listening"
    /\ nReq = 2
    /\ lastReq.path = "/callback/"
    /\ lastHttp = 404
    /\ promise.st = "pending"
    /\ apc = "awaitCode"

\* C20: the callback listener exists only for the duration of the flow: once the
\* flow has been resolved or failed (valid callback, provider error, invalid
\* callback or bind failure) the listener is closed and accepts no further
\* requests, and no token exchange starts while the listener is still open.
\* The listener counts as closed from the call of server.close() on.
C20_ListenerClosedOnceSettled ==
    /\ []((promise.st /= "pending" /\ server /= "none")
              => server \in {"closing", "closed", "failed"})
    /\ [][(promise.st /= "pending") => (nReq' = nReq /\ lastHttp' = lastHttp)]_vars
    /\ []((exchanges > 0) => (server \in {"closing", "closed"}))

\* C21: the outcome of the flow is settled exactly once, by the first /callback
\* request: a /callback request that arrives after it, before the listener has
\* finished closing, never changes a captured code into a failure, a failure
\* into a success, or the captured code into another code.
C21_OutcomeSettledOnce ==
    /\ [][(promise.st /= "pending")
             => (promise' = promise /\ sentCode' = sentCode)]_vars
    /\ [][(CallbackHandled /\ promise.st /= "pending")
             => UNCHANGED <<promise, apc, authError, exchanges, sentCode, shortLived,
                           stored, saves>>]_vars
    /\ [][(CallbackHandled /\ promise.st = "pending") => (promise'.st /= "pending")]_vars
    /\ [](/\ (promise.st = "resolved")
                 => (exchanges >= 1 /\ sentCode = promise.code
                     /\ authError.msg \notin {"OAuth error: ", "Invalid OAuth callback."})
          /\ (promise.st = "rejected")
                 => (exchanges = 0 /\ apc = "failed" /\ authError = promise.err))

C21_Witness ==
    /\ server = "closing"
    /\ nReq = 2
    /\ promise = Resolved("c1")
    /\ sentCode = "c1"
    /\ apc = "exchangeCode"
    /\ lastReq.path = "/callback"
    /\ lastReq.code = "c2"
    /\ lastReq.state = nonce
    /\ lastReq.error = Null
    /\ lastHttp = 200

\* C22: the temporary certificate generated for a flow is removed on every exit
\* path of getAuthorizationCode (normal completion, provider error or invalid
\* callback, listener bind failure, failed certificate generation): when the
\* invocation ends, no certificate directory of that flow remains.
C22_CertificateRemoved ==
    /\ [][(nCmd' = nCmd + 1) => (certDir \in {"none", "removed"})]_vars
    /\ []((server \in {"closed", "failed"}) => (certDir = "removed"))

(***************************************************************************)
(* Concurrent invocations over one credential store                        *)
(***************************************************************************)
\* C23: when two invocations each run saveConfig with their reads and writes
\* interleaved in any order, the record left in the store once both have
\* finished holds, for every field, the value the later writer supplied, and
\* for every field only the earlier writer supplied, the earlier writer's value
C23_InterleavedSavesKeepEveryField ==
    (\A p \in Procs : wpc[p] = "done") =>
        LET first == written[1]
            last == written[Len(written)]
        IN \A f \in ConfigFields :
              /\ (wconfig[last][f] /= Absent) => (stored[f] = wconfig[last][f])
              /\ (wconfig[last][f] = Absent /\ wconfig[first][f] /= Absent)
                     => (stored[f] = wconfig[first][f])

(***************************************************************************)
(* Operations that need the user id                                        *)
(***************************************************************************)
\* the client functions that address the user's own resources
UserIdOps ==
    {"createPost", "createCarouselPost", "publishContainer", "getUserThreads",
     "getUserInsights"}

\* C24: an operation that needs the user id (createContainer through createPost
\* and createCarouselPost, publishContainer, getUserThreads, getUserInsights),
\* called on a client without a user id, fails at once with the "user_id is
\* required" error and no HTTP request is ever issued for it
C24_NoRequestWithoutUserId ==
    /\ [][(pc = "idle" /\ op' \in UserIdOps /\ userId \in {"", Undefined})
             => /\ pc' = "done"
                /\ result'.kind = "error"
                /\ result'.msg \in {MsgUserId, MsgUserIdAuth}
                /\ tpc' = "idle"
                /\ req' = NoReq
                /\ ~fetched']_vars
    /\ []((op \in UserIdOps /\ userId \in {"", Undefined})
             => (~fetched /\ tpc = "idle" /\ nCreate = 0 /\ nParent = 0 /\ nPublish = 0))

C24_Witness ==
    /\ op = "getUserInsights"
    /\ userId = ""
    /\ pc = "done"
    /\ result = Thrown(MsgUserId, 0, "")
    /\ ~fetched

(***************************************************************************)
(* The commands of one invocation                                          *)
(***************************************************************************)
\* C29: a command that calls ensureUserId on a client that holds a user id
\* issues no profile request and writes nothing; on a client without one it
\* issues exactly one profile request, takes the id of the answer as the
\* client's user id and saves the user_id field alone; from then on the
\* invocation keeps that id, addresses the user's resources with it and issues
\* no other profile request
C29_UserIdResolvedOnce ==
    /\ [][(pc = "idle" /\ cmd' \in EnsuringCommands /\ ~loaded'.threw
              /\ loaded'.config.user_id \notin {"", Undefined})
             => /\ pc' = "ensured"
                /\ tpc' = "idle"
                /\ ~fetched'
                /\ nProfile' = 0
                /\ stored' = stored
                /\ userId' = loaded'.config.user_id]_vars
    /\ [][(pc = "idle" /\ cmd' \in EnsuringCommands /\ ~loaded'.threw
              /\ loaded'.config.user_id \in {"", Undefined})
             => /\ pc' = "ensure"
                /\ req'.method = "GET"
                /\ req'.path = <<"me">>
                /\ nProfile' = 1
                /\ stored' = stored]_vars
    /\ [][(pc = "ensure" /\ pc' = "ensured")
             => /\ tpc = "returned"
                /\ userId' = ret.id
                /\ stored' = [stored EXCEPT !.user_id = ret.id]
                /\ lastPartial' = [NoPartial EXCEPT !.user_id = ret.id]]_vars
    /\ [][(pc = "ensure" /\ pc' /= "ensured")
             => (stored' = stored /\ userId' = userId /\ nProfile' = nProfile)]_vars
    /\ [][(cmd \in EnsuringCommands /\ pc \notin {"idle", "ensure"})
             => (userId' = userId /\ stored' = stored /\ nProfile' = nProfile)]_vars
    /\ [](cmd \in EnsuringCommands
             => /\ nProfile <= 1
                /\ saves <= nProfile
                /\ (pc \notin {"idle", "ensure"} /\ tpc /= "idle")
                      => /\ req.path /= <<"me">>
                         /\ (Len(req.path) = 2) => (req.path[1] = userId))

C29_Witness ==
    /\ cmd = "post"
    /\ nProfile = 1
    /\ saves = 1
    /\ userId = "17841"
    /\ stored.user_id = "17841"
    /\ lastPartial = [NoPartial EXCEPT !.user_id = "17841"]
    /\ pc = "done"
    /\ result.kind = "ok"
    /\ nPublish = 1

\* C25: the credential store is written only by the step that completes a
\* successful authentication (the long-lived exchange answered 2xx), by the
\* step that completes a successful refresh, and by a user-id resolution whose
\* profile request returned; no step of post, carousel, delete, timeline,
\* reply, replies, hide, unhide or insights after the resolution writes it, and
\* no step in which a command fails writes it
C25_StoreWrittenOnlyByAuthRefreshResolution ==
    /\ [][(stored' /= stored \/ saves' /= saves)
             => \/ /\ apc = "exchangeToken"
                   /\ apc' = "done"
                   /\ answered'[Len(answered')] >= 200
                   /\ answered'[Len(answered')] <= 299
                \/ rpc = "refresh" /\ rpc' = "done"
                \/ pc \in {"ensure", "me"} /\ tpc = "returned" /\ pc' \in {"ensured", "done"}]_vars
    /\ [][(cmd \in Commands /\ pc /= "ensure")
             => (stored' = stored /\ saves' = saves)]_vars
    /\ [][(apc' = "failed" \/ rpc' = "failed" \/ (pc' = "done" /\ result'.kind = "error"))
             => (stored' = stored /\ saves' = saves)]_vars

C25_Witness ==
    /\ cmd = "post"
    /\ pc = "done"
    /\ result.kind = "error"
    /\ nProfile = 0
    /\ nCreate = 1
    /\ saves = 0
    /\ stored = OldConfig

(***************************************************************************)
(* parseResponse                                                           *)
(***************************************************************************)
\* C26: parseResponse maps every status and body as follows: a body that does
\* not parse with a failure status gives an error whose detail is the first 200
\* characters of the body; a body that does not parse with a success status
\* gives an empty successful result; a body that parses with a failure status
\* gives an error carrying the HTTP status and the type, message and code of the
\* envelope; a body that parses with a success status gives the parsed body
C26_ParseResponseMapping ==
    (parsed /= NoOutcome) =>
        LET b == res.body
            failure == res.status < 200 \/ res.status > 299
        IN /\ (~b.parseable /\ failure)
                 => /\ parsed.kind = "error"
                    /\ parsed.status = res.status
                    /\ parsed.detail.form = "slice"
                    /\ Len(parsed.detail.text) <= 200
                    /\ Len(parsed.detail.text) = Len(b.text) \/ Len(parsed.detail.text) = 200
                    /\ \A i \in 1..Len(parsed.detail.text) : parsed.detail.text[i] = b.text[i]
           /\ (~b.parseable /\ ~failure)
                 => (parsed.kind = "value" /\ parsed.data = EmptyObject)
           /\ (b.parseable /\ failure)
                 => /\ parsed.kind = "error"
                    /\ parsed.status = res.status
                    /\ parsed.detail.form = "envelope"
                    /\ (b.data.error.type /= Missing)
                          => (parsed.detail.type = b.data.error.type)
                    /\ (b.data.error.message /= Missing)
                          => (parsed.detail.message = b.data.error.message)
                    /\ (b.data.error.code /= Missing)
                          => (parsed.detail.code = b.data.error.code)
           /\ (b.parseable /\ ~failure)
                 => (parsed.kind = "value" /\ parsed.data = b.data)

(***************************************************************************)
(* Polling and retrying, request by request                                *)
(***************************************************************************)
\* C27: a status check that returns anything but FINISHED, ERROR or EXPIRED
\* (IN_PROGRESS, PUBLISHED, no status field) makes pollContainerStatus wait and
\* poll again; while every check of a container has returned such a status the
\* container is not published, and the operation can only end in the timeout
\* error, which it eventually does unless a check turns out otherwise
C27_UnfinishedStatusesKeepPolling ==
    /\ [][(pc = "status" /\ tpc = "returned"
              /\ ret.status \notin {"FINISHED", "ERROR", "EXPIRED"})
             => (pc' = "sleep" /\ nPublish' = nPublish /\ result' = result)]_vars
    /\ []((polls >= 1 /\ unfinished)
             => /\ nPublish = 0
                /\ (pc = "done") => (result = Thrown(MsgPollTimeout, 0, "")))
    /\ ((polls >= 1 /\ unfinished)
          ~> (~unfinished \/ (pc = "done" /\ result.msg = MsgPollTimeout)))

C27_Witness ==
    /\ op = "createPost"
    /\ pc = "done"
    /\ unfinished
    /\ ~inProgress
    /\ polls = POLL_TIMEOUT_MS \div POLL_INTERVAL_MS
    /\ result = Thrown(MsgPollTimeout, 0, "")
    /\ nPublish = 0

\* C28: every call of request starts with retry count 0 whatever the previous
\* calls used; a retry continues the same call with the count one higher; each
\* request of the pipeline therefore makes at most MAX_RATE_LIMIT_RETRIES + 1
\* HTTP attempts and MAX_RATE_LIMIT_RETRIES waits, and every call settles once
\* its attempts and timers do
C28_RetryBudgetPerRequest ==
    /\ [][(tpc' = "fetch" /\ tpc \in {"idle", "returned", "threw"})
             => (retryCount' = 0 /\ waits' = 0 /\ resps' = <<>>)]_vars
    /\ [][(tpc = "wait" /\ tpc' = "fetch")
             => (retryCount' = retryCount + 1 /\ waits' = waits + 1 /\ req' = req)]_vars
    /\ [](/\ Len(resps) <= MAX_RATE_LIMIT_RETRIES + 1
          /\ waits <= MAX_RATE_LIMIT_RETRIES
          /\ retryCount = waits
          /\ (tpc = "fetch") => (Len(resps) = waits))
    /\ ((tpc \in {"fetch", "wait"}) ~> (tpc \in {"returned", "threw"}))

C28_Witness ==
    /\ op = "createPost"
    /\ media_type = "IMAGE"
    /\ polls = 1
    /\ elapsed = MAX_RATE_LIMIT_RETRIES * DEFAULT_RATE_LIMIT_WAIT_MS
    /\ pc = "publish"
    /\ tpc = "returned"
    /\ waits = MAX_RATE_LIMIT_RETRIES
    /\ resps = <<429, 429, 200>>

=============================================================================
